---- MODULE Spec2Model ----
(***************************************************************************)
(* git-tweezers: the diff model, the line mapper, the patch builder, the   *)
(* content-addressed hunk identity cache and the staging orchestrator.     *)
(*                                                                         *)
(* A line of text is a sequence of one-character strings.  A change is a   *)
(* record [type, content, eol]; the code tells change objects apart by     *)
(* reference, which the model renders as the position of the change in     *)
(* hunk.changes.                                                           *)
(***************************************************************************)
EXTENDS Integers, Sequences, FiniteSets, TLC

VARIABLES
    hunk,       \* the ParsedHunk an operation of the core works on
    op,         \* the operation of the core applied last ("none" before)
    arg,        \* its argument (selected positions, requested lines, ...)
    out,        \* its result
    diffText,   \* raw diff text handed to the parser: a sequence of lines
    cacheData,  \* HunkCacheService.cacheData: fingerprints, usedIds, history
    now,        \* the wall clock, Date.now()
    listing,    \* the hunks mapHunks has just returned (empty after any other call)
    worktree,   \* the edits of the working-tree file against HEAD: site -> edit kind
    staged,     \* the sites whose edit is in the index
    precise,    \* StageOptions.precise of the calls of a staging session
    idOf,       \* the ids a session read from its first listing: site -> id
    plan,       \* the sites whose id of the first listing has not been staged by yet
    fileKind,   \* what git takes the file for: "text" or "binary"
    trackState, \* "tracked", "untracked", or "intent" once registered with add -N
    calls,      \* the git calls the last operation made, in order
    added,      \* how many addHistory calls the caller has made
    removed,    \* how many history entries the caller has had removed
    patchText,  \* the text the last operation handed to git apply (lines; none: <<>>)
    disk,       \* the persisted document tweezers-cache.json
    mem         \* cacheData of each HunkCacheService instance sharing the document

hunkVars == <<hunk, diffText>>
cacheVars == <<cacheData, now, listing>>
stageVars == <<worktree, staged, precise, idOf, plan>>
cmdVars == <<fileKind, trackState, calls, added, removed, patchText>>
diskVars == <<disk, mem>>

vars == <<hunk, op, arg, out, diffText, cacheData, now, listing,
          worktree, staged, precise, idOf, plan,
          fileKind, trackState, calls, added, removed, patchText, disk, mem>>

----------------------------------------------------------------------------
(* Bounds of the model *)

MaxLen == 4          \* longest generated hunk (changes per hunk)
MaxParseLen == 2     \* longest hunk of a generated diff text
MaxListLen == 2      \* most hunks handed to one mapHunks call
MaxTicks == 3        \* the clock stops after this many half weeks
MaxHist == 1         \* most history entries kept while the cache is explored
MaxSites == 2        \* places of the staged file that can carry an edit

----------------------------------------------------------------------------
(* Text *)

X == <<"X">>
Y == <<"Y">>
XTab == <<"X", "\t">>

FilePath == <<"f">>

Digit(n) ==
    CASE n = 0 -> "0" [] n = 1 -> "1" [] n = 2 -> "2" [] n = 3 -> "3" [] n = 4 -> "4"
      [] n = 5 -> "5" [] n = 6 -> "6" [] n = 7 -> "7" [] n = 8 -> "8" [] n = 9 -> "9"

FromDigit(c) == CHOOSE n \in 0..9 : Digit(n) = c

IsDigit(c) == c \in {Digit(n) : n \in 0..9}

RECURSIVE Decimal(_)
Decimal(n) ==
    IF n < 10 THEN <<Digit(n)>> ELSE Decimal(n \div 10) \o <<Digit(n % 10)>>

\* A local of the code that is read several times is bound as the one element of
\* a set, CHOOSE r \in {e(x) : x \in {v}} : TRUE, which is e(v) with v worked
\* out once.

Min(a, b) == IF a < b THEN a ELSE b
Max(a, b) == IF a > b THEN a ELSE b

Types == {"AddedLine", "DeletedLine", "UnchangedLine"}

Change(t, c, e) == [type |-> t, content |-> c, eol |-> e]

----------------------------------------------------------------------------
(* Diff model: ParsedHunk *)

\* diff-parser.ts:67: the header text '@@ -a,b +c,d @@', kept as its four numbers
FormatHeader(oldStart, oldCount, newStart, newCount) ==
    <<oldStart, oldCount, newStart, newCount>>

CountType(changes, t) == Cardinality({i \in 1..Len(changes) : changes[i].type = t})

\* old-side and new-side line counts of a change list
OldLines(changes) == CountType(changes, "DeletedLine") + CountType(changes, "UnchangedLine")
NewLines(changes) == CountType(changes, "AddedLine") + CountType(changes, "UnchangedLine")

ParsedHunk(index, oldStart, oldLines, newStart, newLines, changes) ==
    [index |-> index,
     header |-> FormatHeader(oldStart, oldLines, newStart, newLines),
     oldStart |-> oldStart, oldLines |-> oldLines,
     newStart |-> newStart, newLines |-> newLines,
     changes |-> changes]

----------------------------------------------------------------------------
(* Line mapper (diff-analyzer.ts, class LineMapper) *)

MapSet(map, k, v) == [x \in (DOMAIN map) \cup {k} |-> IF x = k THEN v ELSE map[x]]

EmptyMap == [x \in {} |-> 0]

RECURSIVE mapLoop(_, _, _, _)
mapLoop(changes, i, newLine, map) ==
    IF i > Len(changes) THEN map
    ELSE CASE changes[i].type = "UnchangedLine" ->
                mapLoop(changes, i + 1, newLine + 1, MapSet(map, newLine, i))
           [] changes[i].type = "DeletedLine" ->
                mapLoop(changes, i + 1, newLine, map)
           [] changes[i].type = "AddedLine" ->
                mapLoop(changes, i + 1, newLine + 1, MapSet(map, newLine, i))

\* a line map that counts from the start of the old side
mapNewLinesFromOldStart(h) == mapLoop(h.changes, 1, h.oldStart, EmptyMap)

\* new-file line number -> position in h.changes of the change on that line
mapNewLinesToChanges(h) == mapLoop(h.changes, 1, h.newStart, EmptyMap)

RECURSIVE SortedSeq(_)
SortedSeq(S) ==
    IF S = {} THEN <<>>
    ELSE LET m == CHOOSE x \in S : \A y \in S : x <= y
         IN <<m>> \o SortedSeq(S \ {m})

\* requiredFor that takes the change on the line whatever its type
requiredForAnyType(h, lineMap, lineNum) ==
    IF lineNum \in DOMAIN lineMap
    THEN LET index == lineMap[lineNum]
         IN {index} \cup
            (IF index >= 3
                /\ h.changes[index - 2].type = "DeletedLine"
                /\ ~h.changes[index - 2].eol
                /\ h.changes[index - 1].type = "AddedLine"
                /\ h.changes[index - 1].content = h.changes[index - 2].content
             THEN {index - 2, index - 1}
             ELSE {})
    ELSE {}

\* requiredFor without the EOF-fix pair
requiredForNoPair(h, lineMap, lineNum) ==
    IF lineNum \in DOMAIN lineMap /\ h.changes[lineMap[lineNum]].type = "AddedLine"
    THEN {lineMap[lineNum]}
    ELSE {}

\* the positions one requested line adds to `required` (first pass of the loop)
requiredFor(h, lineMap, lineNum) ==
    IF lineNum \in DOMAIN lineMap /\ h.changes[lineMap[lineNum]].type = "AddedLine"
    THEN LET index == lineMap[lineNum]
         IN {index} \cup
            (IF index >= 3
                /\ h.changes[index - 2].type = "DeletedLine"
                /\ ~h.changes[index - 2].eol
                /\ h.changes[index - 1].type = "AddedLine"
                /\ h.changes[index - 1].content = h.changes[index - 2].content
             THEN {index - 2, index - 1}
             ELSE {})
    ELSE {}

\* the positions of the required changes, in hunk order
getRequiredChanges(h, targetLines) ==
    LET lineMap == mapNewLinesToChanges(h)
        required == UNION {requiredFor(h, lineMap, l) : l \in targetLines}
    IN SortedSeq(required)

----------------------------------------------------------------------------
(* Patch builder (patch-builder.ts) *)

\* the groups the regex of rebuildHunk captures from a header
headerMatch(header) == [oldStart |-> header[1], newStart |-> header[3]]

\* rebuildStep that drops a deletion that is not selected, as it drops an addition
rebuildStepDropDeleted(change, isSelected) ==
    IF isSelected
    THEN [emit |-> <<change>>,
          oldInc |-> IF change.type = "AddedLine" THEN 0 ELSE 1,
          newInc |-> IF change.type = "DeletedLine" THEN 0 ELSE 1]
    ELSE IF change.type = "AddedLine" \/ change.type = "DeletedLine"
    THEN [emit |-> <<>>, oldInc |-> 0, newInc |-> 0]
    ELSE [emit |-> <<change>>, oldInc |-> 1, newInc |-> 1]

\* rebuildStep with the deferred deletion left out of the new-side count
rebuildStepOldOnly(change, isSelected) ==
    IF isSelected
    THEN [emit |-> <<change>>,
          oldInc |-> IF change.type = "AddedLine" THEN 0 ELSE 1,
          newInc |-> IF change.type = "DeletedLine" THEN 0 ELSE 1]
    ELSE IF change.type = "AddedLine"
    THEN [emit |-> <<>>, oldInc |-> 0, newInc |-> 0]
    ELSE IF change.type = "DeletedLine"
    THEN [emit |-> <<[change EXCEPT !.type = "UnchangedLine"]>>, oldInc |-> 1, newInc |-> 0]
    ELSE [emit |-> <<change>>, oldInc |-> 1, newInc |-> 1]

\* one turn of the loop of rebuildHunk: what the change appends to the rebuilt
\* list and what it adds to the two counts
rebuildStep(change, isSelected) ==
    IF isSelected
    THEN [emit |-> <<change>>,
          oldInc |-> IF change.type = "AddedLine" THEN 0 ELSE 1,
          newInc |-> IF change.type = "DeletedLine" THEN 0 ELSE 1]
    ELSE IF change.type = "AddedLine"
    THEN [emit |-> <<>>, oldInc |-> 0, newInc |-> 0]
    ELSE IF change.type = "DeletedLine"
    THEN [emit |-> <<[change EXCEPT !.type = "UnchangedLine"]>>, oldInc |-> 1, newInc |-> 1]
    ELSE [emit |-> <<change>>, oldInc |-> 1, newInc |-> 1]

RECURSIVE rebuildLoop(_, _, _, _)
rebuildLoop(changes, selected, i, acc) ==
    IF i > Len(changes) THEN acc
    ELSE LET st == rebuildStep(changes[i], i \in selected)
         IN rebuildLoop(changes, selected, i + 1,
                [changes |-> acc.changes \o st.emit,
                 oldCount |-> acc.oldCount + st.oldInc,
                 newCount |-> acc.newCount + st.newInc])

\* originalHunk: [header, changes]; selected: the positions of the selected changes
rebuildHunk(originalHunk, selected) ==
    LET m == headerMatch(originalHunk.header)
        r == rebuildLoop(originalHunk.changes, selected, 1,
                         [changes |-> <<>>, oldCount |-> 0, newCount |-> 0])
    IN [header |-> FormatHeader(m.oldStart, r.oldCount, m.newStart, r.newCount),
        changes |-> r.changes]

HunkData(h) == [header |-> h.header, changes |-> h.changes]

----------------------------------------------------------------------------
(* Hunk identity (hunk-id.ts) *)

RECURSIVE trimEnd(_)
trimEnd(line) ==
    IF line # <<>> /\ line[Len(line)] \in {" ", "\t", "\n", "\r"}
    THEN trimEnd(SubSeq(line, 1, Len(line) - 1))
    ELSE line

normalizeLine(line) ==
    LET noCR == SelectSeq(line, LAMBDA c : c # "\r")
        noTab == [i \in 1..Len(noCR) |-> IF noCR[i] = "\t" THEN " " ELSE noCR[i]]
    IN trimEnd(noTab)

IsChanged(c) == c.type # "UnchangedLine"

Contents(changes) == [i \in 1..Len(changes) |-> changes[i].content]

extractContext(changes) ==
    LET changed == {i \in 1..Len(changes) : IsChanged(changes[i])}
        first == CHOOSE i \in changed : \A j \in changed : i <= j
        last == CHOOSE i \in changed : \A j \in changed : i >= j
    IN IF changed = {}
       THEN [before |-> <<>>, after |-> <<>>, actualChanges |-> <<>>]
       ELSE [before |->
                Contents(SelectSeq(SubSeq(changes, Max(1, first - 3), first - 1),
                                   LAMBDA c : ~IsChanged(c))),
             after |->
                Contents(SelectSeq(SubSeq(changes, last + 1, Min(Len(changes), last + 3)),
                                   LAMBDA c : ~IsChanged(c))),
             actualChanges |-> SelectSeq(changes, IsChanged)]

\* the text a sequence of hash.update(line + '\n') calls feeds to the hash
RECURSIVE HashText(_)
HashText(lines) ==
    IF lines = <<>> THEN <<>>
    ELSE Head(lines) \o <<"\n">> \o HashText(Tail(lines))

DigestLen == 12      \* least length of a model digest, in hex characters

HexOf(c) ==
    CASE c = "X" -> "a"
      [] c = "Y" -> "b"
      [] c = " " -> "c"
      [] c = "f" -> "d"
      [] c = "\n" -> "f"
      [] c \in {"0", "1", "2", "3", "4", "5", "6", "7", "8", "9"} -> c
      [] OTHER -> "e"

\* createHash('sha256')...digest('hex'), idealised: a hex string that differs for
\* different texts of the model (no full collisions), padded to DigestLen
\* characters, read back to front so that texts ending alike share a digest prefix
Sha256Hex(text) ==
    LET n == Len(text)
        hex == [i \in 1..n |-> HexOf(text[n + 1 - i])]
    IN IF n >= DigestLen THEN hex ELSE hex \o [i \in 1..(DigestLen - n) |-> "0"]

\* a fingerprint that hashes the place of the hunk along with its content
fingerprintWithOldStart(h, filePath) ==
    LET ctx == extractContext(h.changes)
        lines == <<filePath, Decimal(h.oldStart)>>
                 \o [i \in 1..Len(ctx.actualChanges) |->
                        normalizeLine(ctx.actualChanges[i].content)]
    IN Sha256Hex(HashText(lines))

generateContentFingerprint(h, filePath) ==
    LET ctx == extractContext(h.changes)
        lines == <<filePath>>
                 \o [i \in 1..Len(ctx.before) |-> normalizeLine(ctx.before[i])]
                 \o [i \in 1..Len(ctx.actualChanges) |->
                        normalizeLine(ctx.actualChanges[i].content)]
                 \o [i \in 1..Len(ctx.after) |-> normalizeLine(ctx.after[i])]
    IN Sha256Hex(HashText(lines))

IdStartLen == 4

RECURSIVE extendId(_, _, _)
extendId(fingerprint, existingIds, length) ==
    IF SubSeq(fingerprint, 1, length) \in existingIds /\ length < Len(fingerprint)
    THEN extendId(fingerprint, existingIds, length + 1)
    ELSE SubSeq(fingerprint, 1, length)

\* an id that is always the first characters of the fingerprint, never extended
mintIdNoExtend(fingerprint, existingIds) == SubSeq(fingerprint, 1, IdStartLen)

\* the id minted for a fingerprint against the ids in use
mintId(fingerprint, existingIds) == extendId(fingerprint, existingIds, IdStartLen)

generateHunkId(h, filePath, existingIds) ==
    mintId(generateContentFingerprint(h, filePath), existingIds)

----------------------------------------------------------------------------
(* Inputs of the core operations: the hunks a diff can hold *)

L1 == <<"1">>
L2 == <<"2">>

HunkContents == {X, Y}

Starts == {<<1, 1>>, <<3, 5>>}

\* git marks "\ No newline at end of file" only after the last line of the old
\* file and after the last line of the new file
GitEolOk(changes) ==
    \A i \in 1..Len(changes) :
        ~changes[i].eol =>
            /\ changes[i].type = "DeletedLine" =>
                  \A j \in (i + 1)..Len(changes) : changes[j].type = "AddedLine"
            /\ changes[i].type = "AddedLine" =>
                  \A j \in (i + 1)..Len(changes) : changes[j].type = "DeletedLine"
            /\ changes[i].type = "UnchangedLine" => i = Len(changes)

ChangeLists(n) ==
    {cs \in [1..n -> [type : Types, content : HunkContents, eol : BOOLEAN]] :
        /\ \E i \in 1..n : IsChanged(cs[i])
        /\ GitEolOk(cs)}

HunkOf(index, start, changes) ==
    ParsedHunk(index, start[1], OldLines(changes), start[2], NewLines(changes), changes)

\* the hunk of the EOF-fix test (eof-newline.test.ts:161-174)
EofExampleHunk ==
    HunkOf(1, <<1, 1>>,
           <<Change("UnchangedLine", L1, TRUE), Change("UnchangedLine", L2, TRUE),
             Change("DeletedLine", X, FALSE), Change("AddedLine", X, TRUE),
             Change("AddedLine", Y, TRUE)>>)

\* a hunk with more context than the fingerprint looks at, and a tab to normalise
ContextExampleHunk ==
    HunkOf(1, <<1, 1>>,
           <<Change("UnchangedLine", L1, TRUE), Change("UnchangedLine", L2, TRUE),
             Change("UnchangedLine", X, TRUE), Change("UnchangedLine", Y, TRUE),
             Change("AddedLine", XTab, TRUE), Change("UnchangedLine", Y, TRUE)>>)

ExampleHunks == {EofExampleHunk, ContextExampleHunk}

Hunks ==
    {HunkOf(1, st, cs) : st \in Starts, cs \in UNION {ChangeLists(n) : n \in 1..MaxLen}}
    \cup ExampleHunks

----------------------------------------------------------------------------
(* Diff text: what `git diff` prints for one file (git-wrapper.ts, diff) *)

NoNewlineText ==
    <<"N", "o", " ", "n", "e", "w", "l", "i", "n", "e", " ", "a", "t", " ",
      "e", "n", "d", " ", "o", "f", " ", "f", "i", "l", "e">>

MarkerLine == <<"\\", " ">> \o NoNewlineText

Dashes == <<"-", "-">>

\* a range of a hunk header: git leaves the count out when it is 1
HeaderRange(start, count) ==
    Decimal(start) \o (IF count = 1 THEN <<>> ELSE <<",">> \o Decimal(count))

HunkHeaderLine(oldStart, oldLines, newStart, newLines) ==
    <<"@", "@", " ", "-">> \o HeaderRange(oldStart, oldLines)
    \o <<" ", "+">> \o HeaderRange(newStart, newLines) \o <<" ", "@", "@">>

FileHeaderLines(path) ==
    << <<"d", "i", "f", "f", " ", "-", "-", "g", "i", "t", " ", "a", "/">> \o path
            \o <<" ", "b", "/">> \o path,
       <<"i", "n", "d", "e", "x", " ", "1", ".", ".", "2">>,
       <<"-", "-", "-", " ", "a", "/">> \o path,
       <<"+", "+", "+", " ", "b", "/">> \o path >>

Prefix(type) ==
    IF type = "AddedLine" THEN "+" ELSE IF type = "DeletedLine" THEN "-" ELSE " "

RECURSIVE GitChangeLines(_)
GitChangeLines(changes) ==
    IF changes = <<>> THEN <<>>
    ELSE LET c == Head(changes)
         IN << <<Prefix(c.type)>> \o c.content >>
            \o (IF c.eol THEN <<>> ELSE <<MarkerLine>>)
            \o GitChangeLines(Tail(changes))

GitHunkLines(h) ==
    <<HunkHeaderLine(h.oldStart, h.oldLines, h.newStart, h.newLines)>>
    \o GitChangeLines(h.changes)

RECURSIVE GitHunksLines(_)
GitHunksLines(hunks) ==
    IF hunks = <<>> THEN <<>>
    ELSE GitHunkLines(Head(hunks)) \o GitHunksLines(Tail(hunks))

\* the diff text of one file whose differences are `hunks`
GitDiff(path, hunks) == FileHeaderLines(path) \o GitHunksLines(hunks)

----------------------------------------------------------------------------
(* PatchBuilder.buildPatch (patch-builder.ts): the patch text, line by line *)

FileData(oldPath, newPath, hunks) == [oldPath |-> oldPath, newPath |-> newPath, hunks |-> hunks]

\* the text of a header the parser or rebuildHunk has made: both counts are written
HeaderText(header) ==
    <<"@", "@", " ", "-">> \o Decimal(header[1]) \o <<",">> \o Decimal(header[2])
    \o <<" ", "+">> \o Decimal(header[3]) \o <<",">> \o Decimal(header[4])
    \o <<" ", "@", "@">>

PatchHeaderLines(file) ==
    << <<"d", "i", "f", "f", " ", "-", "-", "g", "i", "t", " ", "a", "/">> \o file.oldPath
            \o <<" ", "b", "/">> \o file.newPath,
       <<"i", "n", "d", "e", "x", " ", "0", "0", "0", "0", "0", "0", "0", ".", ".",
         "0", "0", "0", "0", "0", "0", "0", " ", "1", "0", "0", "6", "4", "4">>,
       <<"-", "-", "-", " ", "a", "/">> \o file.oldPath,
       <<"+", "+", "+", " ", "b", "/">> \o file.newPath >>

formatLineChange(change) == <<Prefix(change.type)>> \o change.content

\* a marker after every change that has no newline
shouldAddMarkerAlways(changes, i) == TRUE

\* i counts from 1: the last change of the hunk, or the next change is not context
shouldAddMarker(changes, i) ==
    i = Len(changes) \/ changes[i + 1].type # "UnchangedLine"

RECURSIVE buildChangeLines(_, _)
buildChangeLines(changes, i) ==
    IF i > Len(changes) THEN <<>>
    ELSE <<formatLineChange(changes[i])>>
         \o (IF ~changes[i].eol /\ shouldAddMarker(changes, i) THEN <<MarkerLine>> ELSE <<>>)
         \o buildChangeLines(changes, i + 1)

RECURSIVE buildHunksLines(_, _)
buildHunksLines(hunks, k) ==
    IF k > Len(hunks) THEN <<>>
    ELSE <<HeaderText(hunks[k].header)>> \o buildChangeLines(hunks[k].changes, 1)
         \o buildHunksLines(hunks, k + 1)

RECURSIVE buildFilesLines(_, _)
buildFilesLines(files, f) ==
    IF f > Len(files) THEN <<>>
    ELSE PatchHeaderLines(files[f]) \o buildHunksLines(files[f].hunks, 1)
         \o buildFilesLines(files, f + 1)

\* the lines of the patch; the text is these lines, each ended by a newline
buildPatch(files) == buildFilesLines(files, 1)

----------------------------------------------------------------------------
(* parse-git-diff, as DiffParser.parse uses it (diff-parser.ts:28-30) *)

StartsWith(line, prefix) ==
    Len(line) >= Len(prefix) /\ SubSeq(line, 1, Len(prefix)) = prefix

IsHunkHeader(line) == StartsWith(line, <<"@", "@">>)

IsChunkLine(line) == line # <<>> /\ line[1] \in {"+", "-", " ", "\\"}

RECURSIVE trimStart(_)
trimStart(line) ==
    IF line # <<>> /\ line[1] \in {" ", "\t"} THEN trimStart(Tail(line)) ELSE line

LibChange(line) ==
    CASE line[1] = "+" -> [type |-> "AddedLine", content |-> Tail(line)]
      [] line[1] = "-" -> [type |-> "DeletedLine", content |-> Tail(line)]
      [] line[1] = " " -> [type |-> "UnchangedLine", content |-> Tail(line)]
      [] line[1] = "\\" -> [type |-> "MessageLine", content |-> trimEnd(trimStart(Tail(line)))]

\* the changes of the chunk whose lines start at position i
RECURSIVE LibChanges(_, _)
LibChanges(lines, i) ==
    IF i > Len(lines) \/ ~IsChunkLine(lines[i]) THEN <<>>
    ELSE <<LibChange(lines[i])>> \o LibChanges(lines, i + 1)

\* the position after the digits that start at position i
RECURSIVE DigitsEnd(_, _)
DigitsEnd(line, i) ==
    IF i <= Len(line) /\ IsDigit(line[i]) THEN DigitsEnd(line, i + 1) ELSE i

RECURSIVE ParseNat(_)
ParseNat(digits) ==
    IF digits = <<>> THEN 0
    ELSE 10 * ParseNat(SubSeq(digits, 1, Len(digits) - 1)) + FromDigit(digits[Len(digits)])

\* the range 'start[,lines]' at position i, and the position after it
LibRange(line, i) ==
    LET startEnd == DigitsEnd(line, i)
        hasLines == startEnd <= Len(line) /\ line[startEnd] = ","
        linesEnd == IF hasLines THEN DigitsEnd(line, startEnd + 1) ELSE startEnd
    IN [start |-> ParseNat(SubSeq(line, i, startEnd - 1)),
        lines |-> IF hasLines THEN ParseNat(SubSeq(line, startEnd + 1, linesEnd - 1)) ELSE 1,
        next |-> linesEnd]

LibChunk(lines, i) ==
    LET from == LibRange(lines[i], 5)
        to == LibRange(lines[i], from.next + 2)
    IN [type |-> "Chunk",
        fromFileRange |-> [start |-> from.start, lines |-> from.lines],
        toFileRange |-> [start |-> to.start, lines |-> to.lines],
        changes |-> LibChanges(lines, i + 1)]

\* the chunks of the one file of the diff text, in order
LibParse(lines) ==
    LET at == SortedSeq({i \in 1..Len(lines) : IsHunkHeader(lines[i])})
    IN [i \in 1..Len(at) |-> LibChunk(lines, at[i])]

----------------------------------------------------------------------------
(* DiffAnalyzer.analyzeEOL (diff-analyzer.ts:8-57) *)

\* lineIndex counts from 1 here
hasNoNewlineMarker(diffLines, lineIndex) ==
    IF lineIndex >= Len(diffLines) THEN FALSE
    ELSE diffLines[lineIndex + 1] = MarkerLine

RECURSIVE analyzeLoop(_, _, _, _)
analyzeLoop(lines, i, changeLineIndex, eolMap) ==
    IF i > Len(lines) THEN eolMap
    ELSE LET line == lines[i] IN
         IF StartsWith(line, <<"+", "+", "+">>) \/ StartsWith(line, <<"-", "-", "-">>)
         THEN analyzeLoop(lines, i + 1, changeLineIndex, eolMap)
         ELSE IF line = MarkerLine
         THEN analyzeLoop(lines, i + 1, changeLineIndex, eolMap)
         ELSE IF ~(StartsWith(line, <<"+">>) \/ StartsWith(line, <<"-">>)
                   \/ StartsWith(line, <<" ">>))
         THEN analyzeLoop(lines, i + 1, changeLineIndex, eolMap)
         ELSE LET hasEOL == ~hasNoNewlineMarker(lines, i)
              IN analyzeLoop(lines,
                             IF ~hasEOL /\ i + 1 <= Len(lines) /\ lines[i + 1] = MarkerLine
                             THEN i + 2 ELSE i + 1,
                             changeLineIndex + 1,
                             MapSet(eolMap, changeLineIndex, hasEOL))

\* position of a content line (from 0) -> whether the line ends with a newline
analyzeEOL(diffText_) == analyzeLoop(diffText_, 1, 0, EmptyMap)

----------------------------------------------------------------------------
(* DiffParser.parseFilesWithInfo (diff-parser.ts:50-105) *)

\* the changes of one chunk, the marker's message dropped and eol attached by position
enhancedChanges(chunk, eolMap, globalChangeIndex) ==
    LET kept == SelectSeq(chunk.changes, LAMBDA c : c.content # NoNewlineText)
    IN [k \in 1..Len(kept) |->
            [type |-> kept[k].type, content |-> kept[k].content,
             eol |-> IF (globalChangeIndex + k - 1) \in DOMAIN eolMap
                     THEN eolMap[globalChangeIndex + k - 1] ELSE TRUE]]

RECURSIVE parseChunks(_, _, _, _)
parseChunks(chunks, index, eolMap, globalChangeIndex) ==
    IF index > Len(chunks) THEN <<>>
    ELSE LET chunk == chunks[index]
             changes == enhancedChanges(chunk, eolMap, globalChangeIndex)
         IN <<ParsedHunk(index, chunk.fromFileRange.start, chunk.fromFileRange.lines,
                         chunk.toFileRange.start, chunk.toFileRange.lines, changes)>>
            \o parseChunks(chunks, index + 1, eolMap, globalChangeIndex + Len(changes))

\* the hunks of the one file of the diff text
parseFilesWithInfo(diffText_) ==
    parseChunks(LibParse(diffText_), 1, analyzeEOL(diffText_), 0)

----------------------------------------------------------------------------
(* HunkCacheService (hunk-cache-service.ts) *)

EmptyCache == [version |-> 2, fingerprints |-> EmptyMap, usedIds |-> EmptyMap,
               history |-> <<>>]

WeekMs == 7 * 24 * 60 * 60 * 1000

HalfWeekMs == WeekMs \div 2

HistoryCap == 20

Restrict(f, S) == [x \in S |-> f[x]]

\* saveCache with the comparison turned: an entry seen exactly a week ago goes too
saveCacheInclusive(cache, nowT) ==
    LET weekAgo == nowT - WeekMs
        old == {id \in DOMAIN cache.usedIds : cache.usedIds[id].lastSeen <= weekAgo}
        oldFps == {cache.usedIds[id].fingerprint : id \in old}
    IN [cache EXCEPT !.usedIds = Restrict(@, (DOMAIN @) \ old),
                     !.fingerprints = Restrict(@, (DOMAIN @) \ oldFps)]

\* saveCache pruning usedIds alone
saveCacheOneMap(cache, nowT) ==
    LET weekAgo == nowT - WeekMs
        old == {id \in DOMAIN cache.usedIds : cache.usedIds[id].lastSeen < weekAgo}
    IN [cache EXCEPT !.usedIds = Restrict(@, (DOMAIN @) \ old)]

\* the document saveCache writes at time nowT: entries older than a week leave both maps
saveCache(cache, nowT) ==
    LET weekAgo == nowT - WeekMs
        old == {id \in DOMAIN cache.usedIds : cache.usedIds[id].lastSeen < weekAgo}
        oldFps == {cache.usedIds[id].fingerprint : id \in old}
    IN [cache EXCEPT !.usedIds = Restrict(@, (DOMAIN @) \ old),
                     !.fingerprints = Restrict(@, (DOMAIN @) \ oldFps)]

HunkInfo(h, id) ==
    [index |-> h.index, header |-> h.header,
     oldStart |-> h.oldStart, oldLines |-> h.oldLines,
     newStart |-> h.newStart, newLines |-> h.newLines,
     changes |-> h.changes, id |-> id]

\* one turn of hunks.map that never looks the fingerprint up
mapHunkStepNoReuse(st, h, filePath, nowT) ==
    LET fingerprint == generateContentFingerprint(h, filePath)
        id == mintId(fingerprint, st.existingIds)
    IN [fingerprints |-> MapSet(st.fingerprints, fingerprint, id),
        usedIds |-> MapSet(st.usedIds, id,
                           [id |-> id, fingerprint |-> fingerprint, lastSeen |-> nowT]),
        existingIds |-> st.existingIds \cup {id},
        result |-> Append(st.result, HunkInfo(h, id))]

\* one turn of hunks.map in mapHunks; st: fingerprints, usedIds, existingIds, result
mapHunkStep(st, h, filePath, nowT) ==
    LET fingerprint == generateContentFingerprint(h, filePath) IN
    IF fingerprint \in DOMAIN st.fingerprints
    THEN LET cachedId == st.fingerprints[fingerprint]
         IN [st EXCEPT
                !.usedIds = IF cachedId \in DOMAIN @
                            THEN [@ EXCEPT ![cachedId].lastSeen = nowT] ELSE @,
                !.result = Append(@, HunkInfo(h, cachedId))]
    ELSE LET id == mintId(fingerprint, st.existingIds)
         IN [fingerprints |-> MapSet(st.fingerprints, fingerprint, id),
             usedIds |-> MapSet(st.usedIds, id,
                                [id |-> id, fingerprint |-> fingerprint, lastSeen |-> nowT]),
             existingIds |-> st.existingIds \cup {id},
             result |-> Append(st.result, HunkInfo(h, id))]

RECURSIVE mapHunksLoop(_, _, _, _, _)
mapHunksLoop(st, hunks, k, filePath, nowT) ==
    IF k > Len(hunks) THEN st
    ELSE mapHunksLoop(mapHunkStep(st, hunks[k], filePath, nowT), hunks, k + 1, filePath, nowT)

\* [cacheData: the cache after the call and its save, result: the hunks with ids]
mapHunks(cache, filePath, hunks, nowT) ==
    CHOOSE r \in
        {[cacheData |-> saveCache([cache EXCEPT !.fingerprints = st.fingerprints,
                                                !.usedIds = st.usedIds], nowT),
          result |-> st.result] :
            st \in {mapHunksLoop([fingerprints |-> cache.fingerprints,
                                  usedIds |-> cache.usedIds,
                                  existingIds |-> DOMAIN cache.usedIds,
                                  result |-> <<>>],
                                 hunks, 1, filePath, nowT)}} : TRUE

clearCache(cache, nowT) == saveCache(EmptyCache, nowT)

\* addHistory that never cuts the log
addHistoryNoCap(cache, entry, nowT) ==
    LET historyEntry == [id |-> nowT, timestamp |-> nowT, patch |-> entry.patch,
                         files |-> entry.files, selectors |-> entry.selectors]
    IN saveCache([cache EXCEPT !.history = <<historyEntry>> \o cache.history], nowT)

addHistory(cache, entry, nowT) ==
    LET historyEntry == [id |-> nowT, timestamp |-> nowT, patch |-> entry.patch,
                         files |-> entry.files, selectors |-> entry.selectors]
        unshifted == <<historyEntry>> \o cache.history
        kept == IF Len(unshifted) > HistoryCap THEN SubSeq(unshifted, 1, HistoryCap)
                ELSE unshifted
    IN saveCache([cache EXCEPT !.history = kept], nowT)

\* index counts from 0
removeHistoryEntry(cache, index, nowT) ==
    IF index >= 0 /\ index < Len(cache.history)
    THEN saveCache([cache EXCEPT !.history =
                        SubSeq(@, 1, index) \o SubSeq(@, index + 2, Len(@))], nowT)
    ELSE cache

----------------------------------------------------------------------------
(* git, for the one tracked text file of a staging session                  *)
(* (git-wrapper.ts: diff, applyWithOptions).  HEAD holds a file of FileLen  *)
(* lines, line n reading the decimal numeral of n; the working tree differs *)
(* from it at most by one edit at each site, and the sites lie far apart.   *)

Sites == 1..MaxSites

\* the line of HEAD an edit of site s touches
SiteLine(s) == 10 * s - 7

FileLen == 10 * MaxSites

LineText(n) == Decimal(n)

EditKinds == {"modify", "insert", "delete"}

\* modify: the line is replaced; insert: a line is put before it; delete: it goes
SiteChanges(s, kind) ==
    CASE kind = "modify" -> <<Change("DeletedLine", LineText(SiteLine(s)), TRUE),
                              Change("AddedLine", X, TRUE)>>
      [] kind = "insert" -> <<Change("AddedLine", X, TRUE)>>
      [] kind = "delete" -> <<Change("DeletedLine", LineText(SiteLine(s)), TRUE)>>

Edited(tree) == {s \in Sites : tree[s] # "none"}

\* by how many lines the edits of the sites in `done` move what follows them
Shift(tree, done, s) ==
    Cardinality({t \in done : t < s /\ tree[t] = "insert"})
    - Cardinality({t \in done : t < s /\ tree[t] = "delete"})

ContextLines(from, to) ==
    [i \in 1..(to - from + 1) |-> Change("UnchangedLine", LineText(from + i - 1), TRUE)]

\* the hunk `git diff -U<context>` prints for the edit of site s when the edits of
\* `done` are in the index; a range of no lines starts at the line before it
SiteHunk(tree, done, s, context, index) ==
    LET line == SiteLine(s)
        lastOld == IF tree[s] = "insert" THEN line - 1 ELSE line
        begin == Max(1, line - context)
        end == Min(FileLen, lastOld + context)
        changes == ContextLines(begin, line - 1) \o SiteChanges(s, tree[s])
                   \o ContextLines(lastOld + 1, end)
        oldLines == OldLines(changes)
        newLines == NewLines(changes)
    IN ParsedHunk(index,
                  begin + Shift(tree, done, s) - (IF oldLines = 0 THEN 1 ELSE 0), oldLines,
                  begin + Shift(tree, Edited(tree), s) - (IF newLines = 0 THEN 1 ELSE 0),
                  newLines, changes)

\* git diff -U<context> -- file: the text is empty when nothing is left unstaged
GitDiffOf(tree, done, context) ==
    LET rest == SortedSeq(Edited(tree) \ done)
    IN IF rest = <<>> THEN <<>>
       ELSE GitDiff(FilePath,
                    [k \in 1..Len(rest) |-> SiteHunk(tree, done, rest[k], context, k)])

\* git apply --cached of a patch of one hunk: the edit the hunk describes enters
\* the index; a hunk that fits no place of the index is refused
GitApply(tree, done, hunkData, context) ==
    LET fits == {s \in Edited(tree) \ done :
                    HunkData(SiteHunk(tree, done, s, context, 1)) = hunkData}
    IN [ok |-> fits # {}, staged |-> done \cup fits]

----------------------------------------------------------------------------
(* HunkCacheService.findHunk and the StagingService (staging-service.ts) *)

\* a selector is [kind |-> "number", value |-> n] or [kind |-> "string", value |-> text]
NumberSelector(n) == [kind |-> "number", value |-> n]
StringSelector(text) == [kind |-> "string", value |-> text]

\* String.prototype.trim
trim(text) == trimEnd(trimStart(text))

\* String(parseInt(text, 10)) === text, for a numeral without sign
IsCanonicalNat(text) ==
    /\ text # <<>>
    /\ \A i \in 1..Len(text) : IsDigit(text[i])
    /\ (Len(text) > 1 => text[1] # "0")

\* Array.prototype.find over positions: the first of `hits`, 0 for undefined
FindFirst(hits) ==
    IF hits = {} THEN 0 ELSE CHOOSE k \in hits : \A j \in hits : k <= j

findByIndex(hunks, n) == FindFirst({k \in 1..Len(hunks) : hunks[k].index = n})

\* an id lookup that accepts a hunk whose id merely starts with the selector
findByIdPrefix(hunks, id) ==
    FindFirst({k \in 1..Len(hunks) : StartsWith(hunks[k].id, id)})

findById(hunks, id) == FindFirst({k \in 1..Len(hunks) : hunks[k].id = id})

\* the position in `hunks` of the hunk found, 0 for undefined
findHunk(hunks, selector) ==
    IF selector.kind = "number"
    THEN findByIndex(hunks, selector.value)
    ELSE LET selectorStr == trim(selector.value)
         IN CHOOSE r \in
                {IF byId # 0 THEN byId
                 ELSE IF IsCanonicalNat(selectorStr)
                 THEN findByIndex(hunks, ParseNat(selectorStr))
                 ELSE 0 : byId \in {findById(hunks, selectorStr)}} : TRUE

\* [cacheData, result]: an empty diff returns before the cache is touched
listHunksWithInfo(cache, tree, done, options, nowT) ==
    LET context == IF options.precise THEN 0 ELSE 3
    IN CHOOSE r \in
           {IF diff = <<>> THEN [cacheData |-> cache, result |-> <<>>]
            ELSE CHOOSE m \in {mapHunks(cache, FilePath, hunks, nowT) :
                                   hunks \in {parseFilesWithInfo(diff)}} : TRUE :
               diff \in {GitDiffOf(tree, done, context)}} : TRUE

\* the part of stageHunk that follows mapHunks; r: what mapHunks returned
stageFound(r, tree, done, hunkSelector, options) ==
    CHOOSE res \in
        {IF k = 0
         THEN [cacheData |-> r.cacheData, staged |-> done, out |-> "StagingError",
               listing |-> r.result]
         ELSE IF options.dryRun
         THEN [cacheData |-> r.cacheData, staged |-> done, out |-> "ok",
               listing |-> r.result]
         ELSE CHOOSE a \in
                  {[cacheData |-> r.cacheData, staged |-> applied.staged,
                    out |-> IF applied.ok THEN "ok" ELSE "Error",
                    listing |-> r.result] :
                      applied \in {GitApply(tree, done, HunkData(r.result[k]),
                                            IF options.precise THEN 0 ELSE 3)}} : TRUE :
            k \in {findHunk(r.result, hunkSelector)}} : TRUE

\* [cacheData, staged, out, listing]: out is "ok" or names the error thrown
stageHunk(cache, tree, done, hunkSelector, options, nowT) ==
    CHOOSE res \in
        {IF diff = <<>>
         THEN [cacheData |-> cache, staged |-> done, out |-> "Error", listing |-> <<>>]
         ELSE CHOOSE f \in
                  {stageFound(r, tree, done, hunkSelector, options) :
                      r \in {mapHunks(cache, FilePath, hunks, nowT) :
                                 hunks \in {parseFilesWithInfo(diff)}}} : TRUE :
            diff \in {GitDiffOf(tree, done, IF options.precise THEN 0 ELSE 3)}} : TRUE

----------------------------------------------------------------------------
(* SpecHunk: the core operations applied to one hunk *)

CacheIdle ==
    /\ cacheData = EmptyCache
    /\ now = 0
    /\ listing = <<>>

\* no staging session: a clean working tree
StageIdle ==
    /\ worktree = [s \in 1..MaxSites |-> "none"]
    /\ staged = {}
    /\ precise = FALSE
    /\ idOf = <<>>
    /\ plan = {}

\* a tracked text file, no git call made, no history call made
CmdIdle ==
    /\ fileKind = "text"
    /\ trackState = "tracked"
    /\ calls = <<>>
    /\ added = 0
    /\ removed = 0
    /\ patchText = <<>>
    /\ disk = EmptyCache
    /\ mem = <<>>

InitHunk ==
    /\ hunk \in Hunks
    /\ op = "none"
    /\ arg = {}
    /\ out = <<>>
    /\ diffText = <<>>
    /\ CacheIdle
    /\ StageIdle
    /\ CmdIdle

RebuildHunk ==
    /\ op = "none"
    /\ \E selected \in SUBSET (1..Len(hunk.changes)) :
        /\ arg' = selected
        /\ out' = rebuildHunk(HunkData(hunk), selected)
    /\ op' = "rebuildHunk"
    /\ UNCHANGED <<hunkVars, cacheVars, stageVars, cmdVars, diskVars>>

GetRequiredChanges ==
    /\ op = "none"
    /\ \E targetLines \in SUBSET (hunk.newStart..(hunk.newStart + Len(hunk.changes))) :
        /\ arg' = targetLines
        /\ out' = getRequiredChanges(hunk, targetLines)
    /\ op' = "getRequiredChanges"
    /\ UNCHANGED <<hunkVars, cacheVars, stageVars, cmdVars, diskVars>>

Fingerprint ==
    /\ op = "none"
    /\ arg' = FilePath
    /\ out' = generateContentFingerprint(hunk, FilePath)
    /\ op' = "generateContentFingerprint"
    /\ UNCHANGED <<hunkVars, cacheVars, stageVars, cmdVars, diskVars>>

MapNewLinesToChanges ==
    /\ op = "none"
    /\ arg' = {}
    /\ out' = mapNewLinesToChanges(hunk)
    /\ op' = "mapNewLinesToChanges"
    /\ UNCHANGED <<hunkVars, cacheVars, stageVars, cmdVars, diskVars>>

NextHunk == RebuildHunk \/ GetRequiredChanges \/ Fingerprint \/ MapNewLinesToChanges

SpecHunk == InitHunk /\ [][NextHunk]_vars

Range(seq) == {seq[i] : i \in 1..Len(seq)}

\* C1: the header rebuildHunk returns keeps the original oldStart and newStart, and
\* its oldCount is the number of Deleted plus Unchanged changes of the rebuilt
\* list, its newCount the number of Added plus Unchanged changes of that list
RebuildHeaderCounts ==
    op = "rebuildHunk" =>
        out.header = FormatHeader(hunk.oldStart, OldLines(out.changes),
                                  hunk.newStart, NewLines(out.changes))

\* a partial selection that converts a deletion to context and drops an addition
RebuildHeaderWitness ==
    /\ op = "rebuildHunk"
    /\ \E i \in 1..Len(hunk.changes) : hunk.changes[i].type = "DeletedLine" /\ i \notin arg
    /\ \E i \in 1..Len(hunk.changes) : hunk.changes[i].type = "AddedLine" /\ i \notin arg
    /\ \E i \in arg : hunk.changes[i].type = "AddedLine"
    /\ out.header = FormatHeader(hunk.oldStart, OldLines(out.changes),
                                 hunk.newStart, NewLines(out.changes))

IsEofPairBefore(changes, i) ==
    /\ i >= 3
    /\ changes[i - 2].type = "DeletedLine"
    /\ ~changes[i - 2].eol
    /\ changes[i - 1].type = "AddedLine"
    /\ changes[i - 1].eol
    /\ changes[i - 1].content = changes[i - 2].content

\* C3: whenever getRequiredChanges includes an Added change whose two predecessors
\* are Deleted(X, no newline), Added(X, newline), it includes both of them; the
\* result is in hunk order; and for the hunk of the EOF test a request for new
\* line 4 returns the changes at positions 3, 4, 5
EofPairAtomicity ==
    op = "getRequiredChanges" =>
        /\ \A i \in Range(out) :
              (hunk.changes[i].type = "AddedLine" /\ IsEofPairBefore(hunk.changes, i))
                  => {i - 2, i - 1} \subseteq Range(out)
        /\ \A a, b \in 1..Len(out) : a < b => out[a] < out[b]
        /\ (hunk = EofExampleHunk /\ arg = {4}) => out = <<3, 4, 5>>

EofPairWitness ==
    /\ op = "getRequiredChanges"
    /\ hunk = EofExampleHunk
    /\ arg = {4}
    /\ out = <<3, 4, 5>>

\* the lines of one side of a change list, each with its newline flag
SideLines(changes, otherType) ==
    [k \in 1..Len(SelectSeq(changes, LAMBDA c : c.type # otherType)) |->
        [content |-> SelectSeq(changes, LAMBDA c : c.type # otherType)[k].content,
         eol |-> SelectSeq(changes, LAMBDA c : c.type # otherType)[k].eol]]

\* the changes of `changes` at the positions in `selected` that have type t
SelectedOfType(changes, selected, t) ==
    [k \in 1..Len(SortedSeq({i \in selected : changes[i].type = t})) |->
        changes[SortedSeq({i \in selected : changes[i].type = t})[k]]]

\* C27: for every selection the rebuilt hunk has the old side of the original:
\* the same old lines with the same newline flags in the same order, the same
\* oldCount, and oldStart and newStart as they were; its Deleted changes are
\* the selected Deleted changes and its Added changes the selected Added
\* changes, so every other Deleted change stands as context and every other
\* Added change is gone; and newCount = oldCount - selected Deleted + selected
\* Added
RebuildKeepsOldSide ==
    op = "rebuildHunk" =>
        /\ SideLines(out.changes, "AddedLine") = SideLines(hunk.changes, "AddedLine")
        /\ out.header[1] = hunk.oldStart
        /\ out.header[2] = hunk.oldLines
        /\ out.header[2] = OldLines(hunk.changes)
        /\ out.header[3] = hunk.newStart
        /\ SelectSeq(out.changes, LAMBDA c : c.type = "DeletedLine")
              = SelectedOfType(hunk.changes, arg, "DeletedLine")
        /\ SelectSeq(out.changes, LAMBDA c : c.type = "AddedLine")
              = SelectedOfType(hunk.changes, arg, "AddedLine")
        /\ out.header[4] = out.header[2]
                            - Len(SelectedOfType(hunk.changes, arg, "DeletedLine"))
                            + Len(SelectedOfType(hunk.changes, arg, "AddedLine"))

\* a selection that takes one Deleted and one Added change and leaves one of
\* each: the Deleted change left, one without newline, stands as context
RebuildKeepsOldSideWitness ==
    /\ op = "rebuildHunk"
    /\ hunk.oldStart # hunk.newStart
    /\ \E d, e, a, b \in 1..Len(hunk.changes) :
          /\ hunk.changes[d].type = "DeletedLine" /\ d \in arg
          /\ hunk.changes[e].type = "DeletedLine" /\ e \notin arg /\ ~hunk.changes[e].eol
          /\ hunk.changes[a].type = "AddedLine" /\ a \in arg
          /\ hunk.changes[b].type = "AddedLine" /\ b \notin arg
          /\ \E k \in 1..Len(out.changes) :
                out.changes[k] = [hunk.changes[e] EXCEPT !.type = "UnchangedLine"]
    /\ Len(out.changes) = 3
    /\ out.header[4] = out.header[2]

\* C26: the line map gives the changes that are not Deleted, in hunk order, the
\* new-file lines newStart, newStart + 1, ... without a gap; a Deleted change
\* has no line, and no two lines have the same change
LineMapConsecutive ==
    op = "mapNewLinesToChanges" =>
        \A kept \in {SortedSeq({i \in 1..Len(hunk.changes) :
                                   hunk.changes[i].type # "DeletedLine"})} :
            /\ DOMAIN out = hunk.newStart..(hunk.newStart + Len(kept) - 1)
            /\ Len(kept) = CountType(hunk.changes, "AddedLine")
                             + CountType(hunk.changes, "UnchangedLine")
            /\ \A k \in 1..Len(kept) : out[hunk.newStart + k - 1] = kept[k]
            /\ \A a, b \in DOMAIN out : out[a] = out[b] => a = b
            /\ \A a \in DOMAIN out : hunk.changes[out[a]].type # "DeletedLine"

\* a hunk whose old and new side start at different lines, with a Deleted
\* change between an Unchanged and an Added one
LineMapWitness ==
    /\ op = "mapNewLinesToChanges"
    /\ hunk.oldStart # hunk.newStart
    /\ Len(hunk.changes) = 3
    /\ hunk.changes[1].type = "UnchangedLine"
    /\ hunk.changes[2].type = "DeletedLine"
    /\ hunk.changes[3].type = "AddedLine"
    /\ DOMAIN out = {hunk.newStart, hunk.newStart + 1}
    /\ out[hunk.newStart + 1] = 3

\* the new-file line of the change at position i: the lines of the changes
\* before it that are not Deleted are counted from newStart
NewLineOf(h, i) ==
    h.newStart + Cardinality({j \in 1..(i - 1) : h.changes[j].type # "DeletedLine"})

\* C23: getRequiredChanges returns the Added changes whose new-file line is
\* requested and the EOF-fix pairs before them, nothing else, each once and in
\* hunk order; a requested line of an Unchanged change or of no change adds
\* nothing, and no Unchanged change is returned
RequiredExact ==
    op = "getRequiredChanges" =>
        LET cs == hunk.changes
            asked == {i \in 1..Len(cs) : cs[i].type = "AddedLine" /\ NewLineOf(hunk, i) \in arg}
            pairs == UNION {{i - 2, i - 1} : i \in {a \in asked : IsEofPairBefore(cs, a)}}
        IN /\ Range(out) = asked \cup pairs
           /\ \A a, b \in 1..Len(out) : a < b => out[a] < out[b]
           /\ \A a \in 1..Len(out) : cs[out[a]].type # "UnchangedLine"

\* the request names a context line, the line of the Added change after an
\* EOF-fix pair, and a line past the hunk
RequiredExactWitness ==
    /\ op = "getRequiredChanges"
    /\ hunk = EofExampleHunk
    /\ arg = {1, 4, 6}
    /\ out = <<3, 4, 5>>

\* a context line without newline that is not the last line of the changes
AppendsAfterNoNewline(changes) ==
    \E k \in 1..(Len(changes) - 1) :
        changes[k].type = "UnchangedLine" /\ ~changes[k].eol

\* C30: an Added change returned by getRequiredChanges comes with every Deleted
\* change without newline that stands before it in the hunk, and with the Added
\* change that follows that Deleted change and restores its content; so the
\* hunk rebuilt from the result has no line after a context line without newline
PairNeverSplit ==
    op = "getRequiredChanges" =>
        /\ \A i \in Range(out) :
              hunk.changes[i].type = "AddedLine" =>
                  \A d \in 1..(i - 1) :
                      (hunk.changes[d].type = "DeletedLine" /\ ~hunk.changes[d].eol) =>
                          /\ d \in Range(out)
                          /\ (/\ hunk.changes[d + 1].type = "AddedLine"
                               /\ hunk.changes[d + 1].content = hunk.changes[d].content)
                                 => (d + 1) \in Range(out)
        /\ ~AppendsAfterNoNewline(rebuildHunk(HunkData(hunk), Range(out)).changes)

\* the hunks with the contents of h, line by line, typed by `types`
Retyped(h, index, start, types) ==
    HunkOf(index, start,
           [i \in 1..Len(h.changes) |-> [h.changes[i] EXCEPT !.type = types[i]]])

TypeAssignments(h) ==
    {types \in [1..Len(h.changes) -> Types] : \E i \in DOMAIN types : types[i] # "UnchangedLine"}

\* C5: the fingerprint depends on the file path and the line contents only: every
\* hunk of the same file with the same sequence of contents has the same
\* fingerprint, whatever its index, header, oldStart/newStart and line types
FingerprintContentOnly ==
    op = "generateContentFingerprint" =>
        \A types \in TypeAssignments(hunk), start \in Starts, index \in {1, 2} :
            generateContentFingerprint(Retyped(hunk, index, start, types), FilePath) = out

\* the part of C5 the code keeps: index, header and starts do not matter, nor does
\* switching changed lines between Added and Deleted
FingerprintAddDeleteBlind ==
    op = "generateContentFingerprint" =>
        \A types \in TypeAssignments(hunk), start \in Starts, index \in {1, 2} :
            (\A i \in DOMAIN types : IsChanged(hunk.changes[i]) <=> types[i] # "UnchangedLine")
                => generateContentFingerprint(Retyped(hunk, index, start, types), FilePath) = out

\* the hunk h after the Added changes at the positions in `done` were staged,
\* with the same lines around them: those changes are context now
PartlyStaged(h, done) ==
    Retyped(h, h.index, <<h.oldStart, h.newStart>>,
            [i \in 1..Len(h.changes) |->
                IF i \in done THEN "UnchangedLine" ELSE h.changes[i].type])

\* C24: a hunk and the hunk that shows some of its added lines as context, the
\* lines around them the same and at least one change left, have the same
\* fingerprint
StagedInvariance ==
    op = "generateContentFingerprint" =>
        \A done \in SUBSET {i \in 1..Len(hunk.changes) : hunk.changes[i].type = "AddedLine"} :
            (\E i \in 1..Len(hunk.changes) : IsChanged(hunk.changes[i]) /\ i \notin done)
                => generateContentFingerprint(PartlyStaged(hunk, done), FilePath) = out

----------------------------------------------------------------------------
(* SpecParse: a diff text is parsed, then the core operations work on a hunk *)

ParseContents == {X, Dashes, NoNewlineText}

ParseChangeLists(n) ==
    {cs \in [1..n -> [type : Types, content : ParseContents, eol : BOOLEAN]] :
        /\ \E i \in 1..n : IsChanged(cs[i])
        /\ GitEolOk(cs)}

\* what the working tree and the index differ by, as git knows it
SourceHunks ==
    {HunkOf(1, st, cs) : st \in Starts,
                         cs \in UNION {ParseChangeLists(n) : n \in 1..MaxParseLen}}

DiffTexts == {GitDiff(FilePath, <<h>>) : h \in SourceHunks}

NoHunk == HunkOf(0, <<0, 0>>, <<>>)

InitParse ==
    /\ diffText \in DiffTexts
    /\ hunk = NoHunk
    /\ op = "diff"
    /\ arg = {}
    /\ out = <<>>
    /\ CacheIdle
    /\ StageIdle
    /\ CmdIdle

ParseFilesWithInfo ==
    /\ op = "diff"
    /\ LET hunks == parseFilesWithInfo(diffText)
       IN \E k \in 1..Len(hunks) : hunk' = hunks[k]
    /\ op' = "none"
    /\ UNCHANGED <<arg, out, diffText, cacheVars, stageVars, cmdVars, diskVars>>

NextParse == ParseFilesWithInfo \/ RebuildHunk \/ GetRequiredChanges \/ Fingerprint

SpecParse == InitParse /\ [][NextParse]_vars

\* C2: rebuildHunk of a parsed hunk with all of its changes selected returns the
\* hunk's header and exactly its changes, so both serialize to the same lines
RebuildRoundTrip ==
    (op = "rebuildHunk" /\ arg = 1..Len(hunk.changes)) =>
        /\ out.header = hunk.header
        /\ out.changes = hunk.changes
        /\ GitChangeLines(out.changes) = GitChangeLines(hunk.changes)

\* the content lines of a diff text of one hunk: the lines after the hunk header
\* that are not the marker line, as positions of the text
ContentLineAt(text) ==
    SortedSeq({i \in 6..Len(text) : text[i] # MarkerLine})

\* C22: the k-th change of the parsed hunk is the k-th content line of the diff
\* text: there are as many changes as content lines, the change has the type of
\* the line's prefix and the text after the prefix as content, and its newline
\* flag is false exactly when the marker line follows that line in the text
EolAlignment ==
    hunk # NoHunk =>
        \A at \in {ContentLineAt(diffText)} :
            /\ Len(hunk.changes) = Len(at)
            /\ \A k \in 1..Len(at) :
                  /\ Prefix(hunk.changes[k].type) = diffText[at[k]][1]
                  /\ hunk.changes[k].content = Tail(diffText[at[k]])
                  /\ hunk.changes[k].eol =
                        ~(at[k] < Len(diffText) /\ diffText[at[k] + 1] = MarkerLine)

----------------------------------------------------------------------------
(* SpecCache: the calls of one HunkCacheService instance, and the clock *)

CachePaths == {FilePath}

\* change lists whose fingerprints share their first characters
PoolA == <<Change("AddedLine", Y, TRUE), Change("AddedLine", X, TRUE)>>
PoolB == <<Change("AddedLine", X, TRUE), Change("AddedLine", Y, TRUE),
           Change("AddedLine", X, TRUE)>>

PoolC == <<Change("AddedLine", Y, TRUE), Change("AddedLine", Y, TRUE),
           Change("AddedLine", X, TRUE)>>

CachePool == {PoolA, PoolB, PoolC}

\* the hunks of one listing: hunk k of the file starts at line 10 * k
CacheInputs ==
    UNION {{[k \in 1..n |-> HunkOf(k, <<10 * k, 10 * k>>, cs[k])] : cs \in [1..n -> CachePool]}
           : n \in 1..MaxListLen}

HistoryInputs == {[patch |-> GitDiff(FilePath, <<HunkOf(1, <<1, 1>>, PoolA)>>),
                   files |-> <<FilePath>>, selectors |-> <<1>>]}

InitCache ==
    /\ hunk = NoHunk
    /\ diffText = <<>>
    /\ op = "none"
    /\ arg = {}
    /\ out = <<>>
    /\ CacheIdle
    /\ StageIdle
    /\ CmdIdle

MapHunks ==
    /\ \E filePath \in CachePaths, hunks \in CacheInputs :
        LET r == mapHunks(cacheData, filePath, hunks, now)
        IN /\ cacheData' = r.cacheData
           /\ listing' = r.result
           /\ arg' = filePath
    /\ op' = "mapHunks"
    /\ UNCHANGED <<hunkVars, out, now, stageVars, cmdVars, diskVars>>

ClearCache ==
    /\ cacheData' = clearCache(cacheData, now)
    /\ op' = "clearCache"
    /\ listing' = <<>>
    /\ UNCHANGED <<hunkVars, arg, out, now, stageVars, cmdVars, diskVars>>

AddHistory ==
    /\ Len(cacheData.history) < MaxHist
    /\ \E entry \in HistoryInputs : cacheData' = addHistory(cacheData, entry, now)
    /\ op' = "addHistory"
    /\ listing' = <<>>
    /\ UNCHANGED <<hunkVars, arg, out, now, stageVars, cmdVars, diskVars>>

RemoveHistoryEntry ==
    /\ \E index \in 0..(Len(cacheData.history) - 1) :
        cacheData' = removeHistoryEntry(cacheData, index, now)
    /\ op' = "removeHistoryEntry"
    /\ listing' = <<>>
    /\ UNCHANGED <<hunkVars, arg, out, now, stageVars, cmdVars, diskVars>>

Tick ==
    /\ now + HalfWeekMs <= MaxTicks * HalfWeekMs
    /\ now' = now + HalfWeekMs
    /\ op' = "tick"
    /\ listing' = <<>>
    /\ UNCHANGED <<hunkVars, arg, out, cacheData, stageVars, cmdVars, diskVars>>

NextCache == MapHunks \/ ClearCache \/ AddHistory \/ RemoveHistoryEntry \/ Tick

SpecCache == InitCache /\ [][NextCache]_vars

\* C9: the two maps of the cache describe the same pairs: fingerprints[f] = i
\* exactly when usedIds[i] exists and names f as its fingerprint
CacheMapsConsistent ==
    /\ \A f \in DOMAIN cacheData.fingerprints :
          /\ cacheData.fingerprints[f] \in DOMAIN cacheData.usedIds
          /\ cacheData.usedIds[cacheData.fingerprints[f]].fingerprint = f
    /\ \A i \in DOMAIN cacheData.usedIds :
          /\ cacheData.usedIds[i].id = i
          /\ cacheData.usedIds[i].fingerprint \in DOMAIN cacheData.fingerprints
          /\ cacheData.fingerprints[cacheData.usedIds[i].fingerprint] = i

\* a save has pruned one of two colliding entries and kept the other
CacheMapsWitness ==
    /\ op = "mapHunks"
    /\ Cardinality(DOMAIN cacheData.usedIds) = 1
    /\ \E i \in DOMAIN cacheData.usedIds : Len(i) > IdStartLen
    /\ CacheMapsConsistent

\* C6: the ids of the hunks returned by one mapHunks call are pairwise distinct
ListingIdsDistinct ==
    op = "mapHunks" =>
        \A a, b \in 1..Len(listing) : a # b => listing[a].id # listing[b].id

\* the fingerprint mapHunks computes for an entry of its result
ListedFingerprint(info, filePath) ==
    generateContentFingerprint(
        HunkOf(info.index, <<info.oldStart, info.newStart>>, info.changes), filePath)

\* C7: in a mapHunks call, a hunk whose fingerprint the cache knows gets the
\* cached id and its entry's lastSeen becomes the time of the call; a hunk
\* whose fingerprint is unknown gets an id no entry had, recorded in both maps;
\* and across every call a fingerprint that stays in the cache keeps its id
MapHunksReusesIds ==
    [][/\ op' = "mapHunks" =>
             \A k \in 1..Len(listing') :
                 LET f == ListedFingerprint(listing'[k], arg')
                     id == listing'[k].id
                 IN /\ f \in DOMAIN cacheData.fingerprints =>
                          id = cacheData.fingerprints[f]
                    /\ f \notin DOMAIN cacheData.fingerprints =>
                          id \notin DOMAIN cacheData.usedIds
                    /\ cacheData'.fingerprints[f] = id
                    /\ cacheData'.usedIds[id] =
                          [id |-> id, fingerprint |-> f, lastSeen |-> now']
       /\ \A f \in DOMAIN cacheData.fingerprints \cap DOMAIN cacheData'.fingerprints :
             cacheData'.fingerprints[f] = cacheData.fingerprints[f]
      ]_vars

\* a listed hunk carries an extended id although the shorter id is free by now:
\* the id was taken from the cache, and its entry was seen at the time of the call
MapHunksReuseWitness ==
    /\ op = "mapHunks"
    /\ \E k \in 1..Len(listing) :
          /\ Len(listing[k].id) > IdStartLen
          /\ SubSeq(listing[k].id, 1, IdStartLen) \notin DOMAIN cacheData.usedIds
          /\ cacheData.usedIds[listing[k].id].lastSeen = now

\* C8: an id minted by mapHunks is the shortest prefix of the fingerprint, of at
\* least 4 characters, that no cache entry and no hunk minted earlier in the call
\* has; listed hunks with different fingerprints have different ids; and in every
\* state no id is the id of two fingerprints
IdsCollisionFree ==
    /\ [](\A f, g \in DOMAIN cacheData.fingerprints :
             cacheData.fingerprints[f] = cacheData.fingerprints[g] => f = g)
    /\ [][op' = "mapHunks" =>
             \A k \in 1..Len(listing') :
                 LET f == ListedFingerprint(listing'[k], arg')
                     id == listing'[k].id
                     tracked == DOMAIN cacheData.usedIds
                                \cup {listing'[j].id : j \in 1..(k - 1)}
                 IN /\ (/\ f \notin DOMAIN cacheData.fingerprints
                         /\ \A j \in 1..(k - 1) : ListedFingerprint(listing'[j], arg') # f)
                        => /\ Len(id) >= IdStartLen
                           /\ id = SubSeq(f, 1, Len(id))
                           /\ id \notin tracked
                           /\ \A n \in IdStartLen..(Len(id) - 1) : SubSeq(f, 1, n) \in tracked
                    /\ \A j \in 1..(k - 1) :
                          ListedFingerprint(listing'[j], arg') # f => listing'[j].id # id
        ]_vars

\* three fingerprints with the same first characters hold ids of 4, 5 and 6
\* characters, the last extended twice
IdsCollisionWitness ==
    /\ op = "mapHunks"
    /\ \E a, b, c \in DOMAIN cacheData.usedIds :
          /\ Len(a) = IdStartLen
          /\ Len(b) = IdStartLen + 1
          /\ Len(c) = IdStartLen + 2
          /\ SubSeq(b, 1, IdStartLen) = a
          /\ SubSeq(c, 1, IdStartLen + 1) = b
          /\ cacheData.usedIds[c].fingerprint = ListedFingerprint(listing[Len(listing)], arg)

\* C10: after every save no entry of the cache was last seen more than 7 days
\* before the time of the save, and every entry the saved document held that was
\* seen within those 7 days is still there, in both maps
SaveKeepsOneWeek ==
    [][now' = now =>
          /\ \A i \in DOMAIN cacheData'.usedIds :
                cacheData'.usedIds[i].lastSeen >= now' - WeekMs
          /\ op' # "clearCache" =>
                \A i \in DOMAIN cacheData.usedIds :
                    cacheData.usedIds[i].lastSeen >= now' - WeekMs =>
                        /\ i \in DOMAIN cacheData'.usedIds
                        /\ cacheData'.usedIds[i].fingerprint = cacheData.usedIds[i].fingerprint
                        /\ cacheData'.fingerprints[cacheData.usedIds[i].fingerprint] = i
      ]_vars

\* a save by addHistory has kept an entry seen exactly 7 days before and dropped
\* the older entry its id was extended against
SaveKeepsOneWeekWitness ==
    /\ op = "addHistory"
    /\ \E i \in DOMAIN cacheData.usedIds :
          /\ cacheData.usedIds[i].lastSeen = now - WeekMs
          /\ Len(i) > IdStartLen
          /\ SubSeq(i, 1, IdStartLen) \notin DOMAIN cacheData.usedIds

\* C25: a hunk the cache holds an id for gets that same id when it is mapped
\* again right after clearCache
ClearKeepsIds ==
    [][op' = "clearCache" =>
          \A cs \in CachePool :
              \A h \in {HunkOf(1, <<10, 10>>, cs)} :
              \A f \in {generateContentFingerprint(h, FilePath)} :
                  f \in DOMAIN cacheData.fingerprints =>
                      mapHunks(cacheData', FilePath, <<h>>, now').result[1].id
                          = cacheData.fingerprints[f]
      ]_vars

----------------------------------------------------------------------------
(* SpecStage: a staging session on one file: the file is listed, the ids of *)
(* the first listing are kept, and hunks are staged by those ids in any     *)
(* order while time passes (id-stability test, "ID Stability During         *)
(* Sequential Staging")                                                     *)

WorkTrees == {t \in [Sites -> EditKinds \cup {"none"}] : Edited(t) # {}}

SessionOptions == [precise |-> precise, dryRun |-> FALSE]

InitStage ==
    /\ hunk = NoHunk
    /\ diffText = <<>>
    /\ op = "none"
    /\ arg = {}
    /\ out = <<>>
    /\ CacheIdle
    /\ worktree \in WorkTrees
    /\ staged = {}
    /\ precise \in BOOLEAN
    /\ idOf = <<>>
    /\ plan = {}
    /\ CmdIdle

\* listHunksWithInfo; the session keeps the ids of its first listing, by position
ListHunks ==
    /\ LET r == listHunksWithInfo(cacheData, worktree, staged, SessionOptions, now)
       IN /\ cacheData' = r.cacheData
          /\ listing' = r.result
          /\ IF idOf = <<>>
             THEN /\ idOf' = [k \in 1..Len(r.result) |-> r.result[k].id]
                  /\ plan' = 1..Len(r.result)
             ELSE UNCHANGED <<idOf, plan>>
    /\ op' = "listHunksWithInfo"
    /\ arg' = FilePath
    /\ UNCHANGED <<hunkVars, out, now, worktree, staged, precise, cmdVars, diskVars>>

\* stageHunk by an id of the first listing that has not been used yet
StageHunk ==
    /\ \E k \in plan :
          LET r == stageHunk(cacheData, worktree, staged, StringSelector(idOf[k]),
                             SessionOptions, now)
          IN /\ cacheData' = r.cacheData
             /\ staged' = r.staged
             /\ out' = r.out
             /\ listing' = r.listing
             /\ arg' = idOf[k]
             /\ plan' = plan \ {k}
    /\ op' = "stageHunk"
    /\ UNCHANGED <<hunkVars, now, worktree, precise, idOf, cmdVars, diskVars>>

NextStage == ListHunks \/ StageHunk \/ Tick

SpecStage == InitStage /\ [][NextStage]_vars

\* C4: once a session has listed the file, every later listing in the same mode
\* holds exactly the hunks not staged yet, numbered 1..n in file order, each
\* with the id the first listing gave it; every stageHunk by an id of the first
\* listing succeeds and stages one hunk, so when all those ids are used nothing
\* is left unstaged
StagingStable ==
    idOf # <<>> =>
        LET initial == SortedSeq(Edited(worktree))
            rest == SortedSeq(Edited(worktree) \ staged)
            InitialPos(s) == CHOOSE k \in 1..Len(initial) : initial[k] = s
            context == IF precise THEN 0 ELSE 3
        IN /\ op = "listHunksWithInfo" =>
                 /\ Len(listing) = Len(rest)
                 /\ \A k \in 1..Len(rest) :
                       /\ listing[k].index = k
                       /\ listing[k].id = idOf[InitialPos(rest[k])]
                       /\ HunkData(listing[k])
                            = HunkData(SiteHunk(worktree, staged, rest[k], context, k))
           /\ op = "stageHunk" => out = "ok"
           /\ Cardinality(Edited(worktree) \ staged) = Cardinality(plan)
           /\ plan = {} => staged = Edited(worktree)

\* the first hunk was staged, and the listing made afterwards shows the hunk
\* that was second, now with index 1 and with its id of the first listing
StagingStableWitness ==
    /\ op = "listHunksWithInfo"
    /\ Len(idOf) >= 2
    /\ staged = {1}
    /\ worktree[1] = "insert"
    /\ Len(listing) = Len(idOf) - 1
    /\ listing[1].index = 1
    /\ listing[1].id = idOf[2]

----------------------------------------------------------------------------
(* SpecFind: findHunk applied to a listing of up to three hunks whose ids    *)
(* are those of the findHunk tests and a one-digit id                        *)

Text(str) == CASE str = "abc1" -> <<"a", "b", "c", "1">>
               [] str = "def2" -> <<"d", "e", "f", "2">>
               [] str = "2a10" -> <<"2", "a", "1", "0">>
               [] str = "2" -> <<"2">>
               [] str = " 2 " -> <<" ", "2", " ">>
               [] str = "02" -> <<"0", "2">>
               [] str = "2a" -> <<"2", "a">>
               [] str = "3" -> <<"3">>
               [] str = "notfound" -> <<"n", "o", "t", "f", "o", "u", "n", "d">>

FindIds == {Text("abc1"), Text("def2"), Text("2a10"), Text("2")}

\* createMockHunk(id, index): only the two fields findHunk reads
MockHunk(id, index) == [id |-> id, index |-> index]

FindListings ==
    UNION {{[k \in 1..n |-> MockHunk(ids[k], k)] : ids \in [1..n -> FindIds]} : n \in 0..3}

TestListing ==
    <<MockHunk(Text("abc1"), 1), MockHunk(Text("def2"), 2), MockHunk(Text("2a10"), 3)>>

FindSelectors ==
    {NumberSelector(n) : n \in 0..4}
    \cup {StringSelector(Text(str)) :
            str \in {"abc1", "def2", "2a10", "2", " 2 ", "02", "2a", "3", "notfound"}}

InitFind ==
    /\ hunk = NoHunk
    /\ diffText = <<>>
    /\ op = "none"
    /\ arg = {}
    /\ out = <<>>
    /\ cacheData = EmptyCache
    /\ now = 0
    /\ listing \in FindListings
    /\ StageIdle
    /\ CmdIdle

FindHunk ==
    /\ op = "none"
    /\ \E selector \in FindSelectors :
        /\ arg' = selector
        /\ out' = findHunk(listing, selector)
    /\ op' = "findHunk"
    /\ UNCHANGED <<hunkVars, cacheVars, stageVars, cmdVars, diskVars>>

NextFind == FindHunk

SpecFind == InitFind /\ [][NextFind]_vars

\* C11: a numeric selector finds the first hunk with that index and nothing
\* else; a string selector, trimmed, finds the first hunk whose id equals it,
\* and only when no id equals it the first hunk whose index it is the decimal
\* numeral of; a selector that matches neither finds nothing; on the listing
\* abc1, def2, 2a10 the selector '2' finds def2 and '2a10' finds the third hunk
SelectorPrecedence ==
    op = "findHunk" =>
        LET ByIndex(n) == {k \in 1..Len(listing) : listing[k].index = n}
            ById(str) == {k \in 1..Len(listing) : listing[k].id = str}
            str == trim(arg.value)
            Numeral(k) == str = Decimal(listing[k].index)
        IN /\ arg.kind = "number" =>
                IF ByIndex(arg.value) = {} THEN out = 0
                ELSE out \in ByIndex(arg.value) /\ \A j \in ByIndex(arg.value) : out <= j
           /\ arg.kind = "string" /\ ById(str) # {} =>
                out \in ById(str) /\ \A j \in ById(str) : out <= j
           /\ arg.kind = "string" /\ ById(str) = {} =>
                IF \E k \in 1..Len(listing) : Numeral(k)
                THEN Numeral(out) /\ \A j \in 1..(out - 1) : ~Numeral(j)
                ELSE out = 0
           /\ listing = TestListing /\ arg = StringSelector(Text("2")) => out = 2
           /\ listing = TestListing /\ arg = StringSelector(Text("2a10")) => out = 3

\* the selector '2' was resolved on a listing whose first hunk has the id '2'
\* and whose second hunk has the index 2: the id won
SelectorPrecedenceWitness ==
    /\ op = "findHunk"
    /\ arg = StringSelector(Text("2"))
    /\ Len(listing) >= 2
    /\ listing[1].id = Text("2")
    /\ out = 1

----------------------------------------------------------------------------
(* The undo command (undo.ts) and SpecHistory: a caller adds history        *)
(* entries one after the other, removes some, and undoes some.  Every edit  *)
(* of the file is an inserted line and starts out staged; the patch of the  *)
(* i-th entry is the -U3 patch of one site.                                 *)

MaxAdds == 25        \* most addHistory calls of a run
MaxRemovals == 2     \* most entries a run removes (removeHistoryEntry, undo)

\* history[index], as a sequence of no or one entry
getHistoryEntry(cache, index) ==
    IF index >= 0 /\ index < Len(cache.history)
    THEN <<cache.history[index + 1]>> ELSE <<>>

\* git apply -R --cached: every hunk of the patch must be the edit of a site
\* that is in the index (git finds the place by the context lines); the edits
\* leave the index
GitReverseApply(tree, done, patch) ==
    LET SiteOf(h) == {s \in Edited(tree) :
                        SiteHunk(tree, {}, s, 3, 1).changes = h.changes}
        ok == /\ patch # <<>>
              /\ \A k \in 1..Len(patch) : SiteOf(patch[k]) # {} /\ SiteOf(patch[k]) \subseteq done
    IN [ok |-> ok,
        staged |-> IF ok THEN done \ UNION {SiteOf(patch[k]) : k \in 1..Len(patch)}
                   ELSE done]

\* an undo that drops the entry whether or not the reverse apply worked
undoAlwaysRemoves(cache, tree, done, step, nowT) ==
    LET entry == getHistoryEntry(cache, step) IN
    IF entry = <<>>
    THEN [cacheData |-> cache, staged |-> done, out |-> "exit 1", calls |-> <<>>]
    ELSE LET r == GitReverseApply(tree, done, entry[1].patch)
         IN [cacheData |-> removeHistoryEntry(cache, step, nowT), staged |-> r.staged,
             out |-> IF r.ok THEN "ok" ELSE "exit 1", calls |-> <<"reverseApplyCached">>]

\* Undo.run without --list: [cacheData, staged, out, calls]
undo(cache, tree, done, step, nowT) ==
    LET entry == getHistoryEntry(cache, step) IN
    IF entry = <<>>
    THEN [cacheData |-> cache, staged |-> done, out |-> "exit 1", calls |-> <<>>]
    ELSE LET r == GitReverseApply(tree, done, entry[1].patch)
         IN IF r.ok
            THEN [cacheData |-> removeHistoryEntry(cache, step, nowT), staged |-> r.staged,
                  out |-> "ok", calls |-> <<"reverseApplyCached">>]
            ELSE [cacheData |-> cache, staged |-> done, out |-> "exit 1",
                  calls |-> <<"reverseApplyCached">>]

AllInserted == [s \in Sites |-> "insert"]

\* what the caller passes to its i-th addHistory call
HistoryEntryFor(i) ==
    [patch |-> <<HunkData(SiteHunk(AllInserted, {}, (i % MaxSites) + 1, 3, 1))>>,
     files |-> <<FilePath>>, selectors |-> <<i>>]

\* the positions a caller asks for: before the log, its ends, and past it
StepChoices == {-1, 0, 1, Len(cacheData.history) - 1, Len(cacheData.history)}

InitHistory ==
    /\ hunk = NoHunk
    /\ diffText = <<>>
    /\ op = "none"
    /\ arg = {}
    /\ out = <<>>
    /\ CacheIdle
    /\ worktree = AllInserted
    /\ staged = Sites
    /\ precise = FALSE
    /\ idOf = <<>>
    /\ plan = {}
    /\ CmdIdle

HistoryAdd ==
    /\ added < MaxAdds
    /\ cacheData' = addHistory(cacheData, HistoryEntryFor(added + 1), now)
    /\ added' = added + 1
    /\ op' = "addHistory"
    /\ arg' = added + 1
    /\ out' = <<>>
    /\ calls' = <<>>
    /\ UNCHANGED <<hunkVars, now, listing, stageVars, fileKind, trackState, removed,
                   patchText, diskVars>>

HistoryRemove ==
    /\ removed < MaxRemovals
    /\ \E index \in StepChoices :
        /\ cacheData' = removeHistoryEntry(cacheData, index, now)
        /\ removed' = IF getHistoryEntry(cacheData, index) # <<>> THEN removed + 1 ELSE removed
        /\ arg' = index
    /\ op' = "removeHistoryEntry"
    /\ out' = <<>>
    /\ calls' = <<>>
    /\ UNCHANGED <<hunkVars, now, listing, stageVars, fileKind, trackState, added,
                   patchText, diskVars>>

Undo ==
    /\ removed < MaxRemovals
    /\ \E step \in StepChoices :
        LET r == undo(cacheData, worktree, staged, step, now)
        IN /\ cacheData' = r.cacheData
           /\ staged' = r.staged
           /\ out' = r.out
           /\ calls' = r.calls
           /\ removed' = IF r.out = "ok" THEN removed + 1 ELSE removed
           /\ arg' = step
    /\ op' = "undo"
    /\ UNCHANGED <<hunkVars, now, listing, worktree, precise, idOf, plan,
                   fileKind, trackState, added, patchText, diskVars>>

NextHistory == HistoryAdd \/ HistoryRemove \/ Undo

SpecHistory == InitHistory /\ [][NextHistory]_vars

\* the sequence without its element at position p
Without(seq, p) == [k \in 1..(Len(seq) - 1) |-> IF k < p THEN seq[k] ELSE seq[k + 1]]

\* C13: the history never holds more than 20 entries; addHistory puts the new
\* entry first and keeps behind it the entries that were there, newest first,
\* cut to 19; as long as nothing was removed the log is exactly the last
\* min(n, 20) of the n entries added, the latest at position 0
HistoryBounded ==
    /\ [](Len(cacheData.history) <= 20)
    /\ [](removed = 0 =>
            /\ Len(cacheData.history) = Min(added, 20)
            /\ \A k \in 1..Len(cacheData.history) :
                  cacheData.history[k].selectors = <<added - k + 1>>)
    /\ [][op' = "addHistory" =>
            /\ cacheData'.history[1].selectors = <<added'>>
            /\ Tail(cacheData'.history)
                 = SubSeq(cacheData.history, 1, Min(Len(cacheData.history), 19))]_vars

\* 25 entries were added and none removed: the log holds entries 25 down to 6
HistoryBoundedWitness ==
    /\ op = "addHistory"
    /\ added = 25
    /\ removed = 0
    /\ Len(cacheData.history) = 20
    /\ cacheData.history[1].selectors = <<25>>
    /\ cacheData.history[20].selectors = <<6>>

\* C14: undo(step) with an entry at that position whose patch git can take
\* back out of the index removes exactly that entry, the others keeping their
\* order, and takes the edit out of the index; with no entry there, or when the
\* reverse apply fails, it exits with an error, leaves history, cache and
\* index as they were, and has called reverse apply at most once
UndoRemovesOnSuccess ==
    [][op' = "undo" =>
        LET h == cacheData.history
            found == arg' >= 0 /\ arg' < Len(h)
            back == GitReverseApply(worktree, staged, h[arg' + 1].patch)
        IN IF found /\ back.ok
           THEN /\ out' = "ok"
                /\ cacheData'.history = Without(h, arg' + 1)
                /\ staged' = back.staged
                /\ staged' # staged
                /\ calls' = <<"reverseApplyCached">>
           ELSE /\ out' = "exit 1"
                /\ cacheData' = cacheData
                /\ staged' = staged
                /\ calls' = IF found THEN <<"reverseApplyCached">> ELSE <<>>]_vars

\* the entry at step 1 was undone: the entries before and after it remain
UndoRemovesWitness ==
    /\ op = "undo"
    /\ out = "ok"
    /\ arg = 1
    /\ Len(cacheData.history) >= 2
    /\ cacheData.history[1].selectors[1] > cacheData.history[2].selectors[1] + 1

----------------------------------------------------------------------------
(* The StagingService on a file that may be binary or untracked             *)
(* (staging-service.ts), and the hunk and lines commands.  The repository   *)
(* is g = [kind, track, tree, done]; an untracked file is a new file of the *)
(* one line X.  A patch is the sequence of the hunks handed to buildPatch.  *)

MaxSelect == 2       \* most selectors, or line ranges, of one command

Repo(kind, track, tree, done) == [kind |-> kind, track |-> track, tree |-> tree, done |-> done]

\* what an operation leaves behind and reports; patch: the text it handed to
\* applyWithOptions, set by the operations that get that far
Res(g, cache, o, called, hunks) ==
    [g |-> g, cacheData |-> cache, out |-> o, calls |-> called, listing |-> hunks,
     patch |-> <<>>]

NewFileHunk == ParsedHunk(1, 0, 0, 1, 1, <<Change("AddedLine", X, TRUE)>>)

BinaryDiff ==
    <<FileHeaderLines(FilePath)[1],
      <<"B", "i", "n", "a", "r", "y", " ", "f", "i", "l", "e", "s", " ",
        "d", "i", "f", "f", "e", "r">> >>

\* git diff -U<context> -- file: nothing for a path git does not track yet
RepoDiff(g, context) ==
    IF g.track = "untracked" THEN <<>>
    ELSE IF g.kind = "binary" THEN BinaryDiff
    ELSE IF g.track = "intent"
    THEN (IF g.done = {} THEN GitDiff(FilePath, <<NewFileHunk>>) ELSE <<>>)
    ELSE GitDiffOf(g.tree, g.done, context)

\* git apply --cached of a patch: every hunk must be an edit that is not in the
\* index yet, no hunk twice; all the edits enter the index or none does
RepoApply(g, patch, context) ==
    IF g.kind = "binary" \/ g.track = "untracked" THEN [ok |-> FALSE, done |-> g.done]
    ELSE IF g.track = "intent"
    THEN LET ok == patch = <<HunkData(NewFileHunk)>> /\ g.done = {}
         IN [ok |-> ok, done |-> IF ok THEN {1} ELSE g.done]
    ELSE LET SiteOf(h) == {s \in Edited(g.tree) \ g.done :
                             HunkData(SiteHunk(g.tree, g.done, s, context, 1)) = h}
             ok == /\ patch # <<>>
                   /\ \A k \in 1..Len(patch) : SiteOf(patch[k]) # {}
                   /\ \A j, k \in 1..Len(patch) : j # k => patch[j] # patch[k]
         IN [ok |-> ok,
             done |-> IF ok THEN g.done \cup UNION {SiteOf(patch[k]) : k \in 1..Len(patch)}
                      ELSE g.done]

\* isBinary, isUntracked and addIntentToAdd at the head of an operation
checkFile(g) ==
    IF g.kind = "binary" THEN [binary |-> TRUE, g |-> g, calls |-> <<"isBinary">>]
    ELSE IF g.track = "untracked"
    THEN [binary |-> FALSE, g |-> [g EXCEPT !.track = "intent"],
          calls |-> <<"isBinary", "isUntracked", "addIntentToAdd">>]
    ELSE [binary |-> FALSE, g |-> g, calls |-> <<"isBinary", "isUntracked">>]

ContextOf(options) == IF options.precise THEN 0 ELSE 3

listHunksWithInfoInRepo(g, cache, options, nowT) ==
    LET c == checkFile(g) IN
    IF c.binary THEN Res(g, cache, "BinaryError", c.calls, <<>>)
    ELSE CHOOSE r \in
           {IF diff = <<>> THEN Res(c.g, cache, "ok", c.calls \o <<"diff">>, <<>>)
            ELSE CHOOSE l \in
                   {Res(c.g, m.cacheData, "ok", c.calls \o <<"diff">>, m.result) :
                       m \in {mapHunks(cache, FilePath, parseFilesWithInfo(diff), nowT)}} : TRUE :
              diff \in {RepoDiff(c.g, ContextOf(options))}} : TRUE

\* buildPatch of the hunks found at the positions ks of m.result, the dry-run
\* return, applyWithOptions
applySelected(g, m, ks, options, called) ==
    IF options.dryRun THEN Res(g, m.cacheData, "ok", called, m.result)
    ELSE CHOOSE r \in
           {CHOOSE q \in
              {[Res([g EXCEPT !.done = a.done], m.cacheData,
                    IF a.ok THEN "ok" ELSE "Error",
                    called \o <<"applyWithOptions">>, m.result)
                EXCEPT !.patch = buildPatch(<<FileData(FilePath, FilePath, selectedHunks)>>)] :
                 a \in {RepoApply(g, selectedHunks, ContextOf(options))}} : TRUE :
              selectedHunks \in {[i \in 1..Len(ks) |-> HunkData(m.result[ks[i]])]}} : TRUE

\* a resolution that passes over the selectors that find nothing
resolveSkipMissing(g, m, hunkSelectors, options, called) ==
    CHOOSE r \in
      {applySelected(g, m, SelectSeq(ks, LAMBDA k : k # 0), options, called) :
         ks \in {[i \in 1..Len(hunkSelectors) |-> findHunk(m.result, hunkSelectors[i])]}} : TRUE

\* findHunk for every selector; a StagingError with the listing if one finds nothing
resolve(g, m, hunkSelectors, options, called) ==
    CHOOSE r \in
      {IF \E i \in 1..Len(ks) : ks[i] = 0
       THEN Res(g, m.cacheData, "StagingError", called, m.result)
       ELSE applySelected(g, m, ks, options, called) :
         ks \in {[i \in 1..Len(hunkSelectors) |-> findHunk(m.result, hunkSelectors[i])]}} : TRUE

\* what stageHunk and stageHunks share: diff, parse, mapHunks, and the rest
stageFrom(g, cache, hunkSelectors, options, nowT, called) ==
    CHOOSE r \in
      {IF diff = <<>> THEN Res(g, cache, "Error", called \o <<"diff">>, <<>>)
       ELSE CHOOSE f \in
              {resolve(g, m, hunkSelectors, options, called \o <<"diff">>) :
                 m \in {mapHunks(cache, FilePath, parseFilesWithInfo(diff), nowT)}} : TRUE :
         diff \in {RepoDiff(g, ContextOf(options))}} : TRUE

stageHunkInRepo(g, cache, hunkSelector, options, nowT) ==
    LET c == checkFile(g) IN
    IF c.binary THEN Res(g, cache, "BinaryError", c.calls, <<>>)
    ELSE stageFrom(c.g, cache, <<hunkSelector>>, options, nowT, c.calls)

stageHunks(g, cache, hunkSelectors, options, nowT) ==
    stageFrom(g, cache, hunkSelectors, options, nowT, <<>>)

\* the rebuilt hunks of the hunks that hold a required change
RECURSIVE rebuiltHunks(_, _, _)
rebuiltHunks(hunks, targetLines, k) ==
    IF k > Len(hunks) THEN <<>>
    ELSE LET required == getRequiredChanges(hunks[k], targetLines)
         IN (IF required = <<>> THEN <<>>
             ELSE <<rebuildHunk(HunkData(hunks[k]), Range(required))>>)
            \o rebuiltHunks(hunks, targetLines, k + 1)

stageLines(g, cache, startLine, endLine, options, nowT) ==
    LET c == checkFile(g) IN
    IF c.binary THEN Res(g, cache, "BinaryError", c.calls, <<>>)
    ELSE CHOOSE r \in
           {IF diff = <<>> THEN Res(c.g, cache, "Error", c.calls \o <<"diff">>, <<>>)
            ELSE CHOOSE f \in
                   {IF patch = <<>> THEN Res(c.g, cache, "Error", c.calls \o <<"diff">>, <<>>)
                    ELSE IF options.dryRun
                    THEN Res(c.g, cache, "ok", c.calls \o <<"diff">>, <<>>)
                    ELSE LET a == RepoApply(c.g, patch, 1)
                         IN [Res([c.g EXCEPT !.done = a.done], cache,
                                 IF a.ok THEN "ok" ELSE "Error",
                                 c.calls \o <<"diff", "applyWithOptions">>, <<>>)
                             EXCEPT !.patch = buildPatch(<<FileData(FilePath, FilePath,
                                                                    patch)>>)] :
                      patch \in {rebuiltHunks(parseFilesWithInfo(diff),
                                              startLine..endLine, 1)}} : TRUE :
              diff \in {RepoDiff(c.g, 1)}} : TRUE

\* Hunk.run for the selectors of one file: flags = [precise, dryRun]
hunkRun(g, cache, selectors, flags, nowT) ==
    IF Len(selectors) = 1
    THEN stageHunkInRepo(g, cache, selectors[1], flags, nowT)
    ELSE stageHunks(g, cache, selectors, flags, nowT)

\* the options of a call that passes none
NoOptions == [precise |-> FALSE, dryRun |-> FALSE]

\* Lines.run: one stageLines call for each range, until one throws
RECURSIVE linesLoop(_, _, _, _, _, _)
linesLoop(g, cache, ranges, k, called, nowT) ==
    IF k > Len(ranges) THEN Res(g, cache, "ok", called, <<>>)
    ELSE CHOOSE res \in
           {IF r.out # "ok" \/ k = Len(ranges)
            THEN [Res(r.g, r.cacheData, r.out, called \o r.calls, <<>>)
                  EXCEPT !.patch = r.patch]
            ELSE linesLoop(r.g, r.cacheData, ranges, k + 1, called \o r.calls, nowT) :
              r \in {stageLines(g, cache, ranges[k][1], ranges[k][2], NoOptions, nowT)}} : TRUE

linesRun(g, cache, ranges, flags, nowT) == linesLoop(g, cache, ranges, 1, <<>>, nowT)

----------------------------------------------------------------------------
(* SpecCmd: list, hunk and lines commands run one after the other on one    *)
(* file; every command is a process of its own, and nothing of it is left   *)
(* when it has exited but the index and the cache file                      *)

CmdTrees == {t \in [Sites -> {"insert", "delete", "none"}] : Edited(t) # {}}

CurrentRepo == Repo(fileKind, trackState, worktree, staged)

\* the ids a listing made now, in either mode, would show
KnownIds ==
    UNION {{l[k].id : k \in 1..Len(l)} :
             l \in {listHunksWithInfoInRepo(CurrentRepo, cacheData,
                                            [precise |-> p, dryRun |-> FALSE], now).listing :
                      p \in BOOLEAN}}

\* selectors as the command line gives them: numerals and ids
Selectors ==
    {StringSelector(Decimal(n)) : n \in 1..(MaxSites + 1)}
    \cup {StringSelector(id) : id \in KnownIds}

SelectorSeqs == UNION {[1..n -> Selectors] : n \in 1..MaxSelect}

\* line ranges: one line (the first, the line of an edit, the last) or all lines
LineRanges ==
    {<<l, l>> : l \in {1, FileLen + MaxSites}
                      \cup {SiteLine(s) + Shift(worktree, Edited(worktree), s) : s \in Sites}}
    \cup {<<1, FileLen + MaxSites>>}

RangeSeqs == UNION {[1..n -> LineRanges] : n \in 1..MaxSelect}

InitCmd ==
    /\ hunk = NoHunk
    /\ diffText = <<>>
    /\ op = "none"
    /\ arg = {}
    /\ out = <<>>
    /\ CacheIdle
    /\ fileKind \in {"text", "binary"}
    /\ trackState \in {"tracked", "untracked"}
    /\ worktree \in IF fileKind = "text" /\ trackState = "tracked"
                    THEN CmdTrees ELSE {[s \in Sites |-> "none"]}
    /\ staged = {}
    /\ precise = FALSE
    /\ idOf = <<>>
    /\ plan = {}
    /\ calls = <<>>
    /\ added = 0
    /\ removed = 0
    /\ patchText = <<>>
    /\ disk = EmptyCache
    /\ mem = <<>>

\* the state a command leaves
Leaves(r) ==
    /\ trackState' = r.g.track
    /\ staged' = r.g.done
    /\ cacheData' = r.cacheData
    /\ out' = r.out
    /\ calls' = r.calls
    /\ listing' = r.listing
    /\ patchText' = r.patch
    /\ UNCHANGED <<hunkVars, now, worktree, precise, idOf, plan, fileKind, added, removed,
                   diskVars>>

ListCmd ==
    /\ op = "none"
    /\ \E p \in BOOLEAN :
        /\ arg' = [precise |-> p, dryRun |-> FALSE]
        /\ Leaves(listHunksWithInfoInRepo(CurrentRepo, cacheData, arg', now))
    /\ op' = "list"

HunkCmd ==
    /\ op = "none"
    /\ \E selectors \in SelectorSeqs, p, d \in BOOLEAN :
        /\ arg' = [selectors |-> selectors, precise |-> p, dryRun |-> d]
        /\ Leaves(hunkRun(CurrentRepo, cacheData, selectors,
                          [precise |-> p, dryRun |-> d], now))
    /\ op' = "hunk"

LinesCmd ==
    /\ op = "none"
    /\ \E ranges \in RangeSeqs, d \in BOOLEAN :
        /\ arg' = [ranges |-> ranges, precise |-> FALSE, dryRun |-> d]
        /\ Leaves(linesRun(CurrentRepo, cacheData, ranges,
                           [precise |-> FALSE, dryRun |-> d], now))
    /\ op' = "lines"

\* the process exits
Exit ==
    /\ op # "none"
    /\ op' = "none"
    /\ arg' = {}
    /\ out' = <<>>
    /\ calls' = <<>>
    /\ listing' = <<>>
    /\ patchText' = <<>>
    /\ UNCHANGED <<hunkVars, cacheData, now, stageVars, fileKind, trackState, added, removed,
                   diskVars>>

NextCmd == ListCmd \/ HunkCmd \/ LinesCmd \/ Exit

SpecCmd == InitCmd /\ [][NextCmd]_vars

Staging == {"hunk", "lines"}

\* C12: when the hunk command gets as far as resolving its selectors (the file
\* was not refused as binary and its diff is not empty) and one of them finds
\* no hunk of the listing of that moment, it raises a StagingError carrying
\* that whole listing, calls no apply and stages nothing, also when other
\* selectors of the request find their hunk; and it raises no StagingError
\* otherwise
UnresolvedSelectorRaises ==
    [][op' = "hunk" /\ out' # "BinaryError" =>
        \A diff \in {RepoDiff(Repo(fileKind, trackState', worktree, staged),
                              ContextOf(arg'))} :
        \A cur \in {mapHunks(cacheData, FilePath, parseFilesWithInfo(diff), now).result} :
            IF diff # <<>> /\ \E i \in 1..Len(arg'.selectors) :
                                  findHunk(cur, arg'.selectors[i]) = 0
            THEN /\ out' = "StagingError"
                 /\ listing' = cur
                 /\ \A i \in 1..Len(calls') : calls'[i] # "applyWithOptions"
                 /\ staged' = staged
            ELSE out' # "StagingError"]_vars

\* two selectors: the first finds a hunk of the listing; the second is an id
\* that the listing of this mode does not hold
UnresolvedSelectorWitness ==
    /\ op = "hunk"
    /\ out = "StagingError"
    /\ Len(arg.selectors) = 2
    /\ listing # <<>>
    /\ findHunk(listing, arg.selectors[1]) # 0
    /\ Len(arg.selectors[2].value) >= IdStartLen
    /\ findHunk(listing, arg.selectors[2]) = 0

\* C15: a staging command that is no dry run and whose apply succeeds leaves
\* one more history entry than there was
StageAppendsHistory ==
    [][(/\ op' \in Staging
        /\ ~arg'.dryRun
        /\ out' = "ok"
        /\ \E i \in 1..Len(calls') : calls'[i] = "applyWithOptions")
       => Len(cacheData'.history) = Len(cacheData.history) + 1]_vars

\* C16: a staging command run with the dry-run flag makes no apply call and
\* leaves the staged content as it was
DryRunAppliesNothing ==
    [][op' \in Staging /\ arg'.dryRun =>
        /\ \A i \in 1..Len(calls') : calls'[i] # "applyWithOptions"
        /\ staged' = staged]_vars

\* C17: a staging command run with the dry-run flag leaves the index, the
\* registration of the file and the cache document as they were
DryRunNoSideEffect ==
    [][op' \in Staging /\ arg'.dryRun =>
        /\ staged' = staged
        /\ trackState' = trackState
        /\ cacheData' = cacheData]_vars

\* C18: a staging command that fails leaves the index, the registration of
\* the file and the cache document as they were
FailureLeavesNoTrace ==
    [][op' \in Staging /\ out' # "ok" =>
        /\ staged' = staged
        /\ trackState' = trackState
        /\ cacheData' = cacheData]_vars

\* C19: on a binary file every list, hunk and lines command fails with the
\* binary-file error, having asked git nothing but whether the file is binary
BinaryRejectedFirst ==
    fileKind = "binary" /\ op \in Staging \cup {"list"} =>
        out = "BinaryError" /\ calls = <<"isBinary">>

\* C20: a command that asks for the diff of an untracked file has registered
\* it with intent-to-add before; on a file that is not untracked no command
\* calls intent-to-add
IntentBeforeDiff ==
    [][op' \in Staging \cup {"list"} =>
        /\ trackState = "untracked" =>
              \A j \in 1..Len(calls') :
                  calls'[j] = "diff" =>
                      \E i \in 1..(j - 1) : calls'[i] = "addIntentToAdd"
        /\ trackState # "untracked" =>
              \A i \in 1..Len(calls') : calls'[i] # "addIntentToAdd"]_vars

\* the old-side start lines of the hunks of a patch text, in the order of the text
PatchStarts(text) ==
    [k \in 1..Len(SortedSeq({i \in 1..Len(text) : IsHunkHeader(text[i])})) |->
        LibRange(text[SortedSeq({i \in 1..Len(text) : IsHunkHeader(text[i])})[k]], 5).start]

\* C29: the hunks of the patch the hunk command hands to apply stand in strictly
\* ascending file position, so none of them twice
PatchHunksAscending ==
    (op = "hunk" /\ patchText # <<>>) =>
        \A starts \in {PatchStarts(patchText)} :
            \A j, k \in 1..Len(starts) : j < k => starts[j] < starts[k]

----------------------------------------------------------------------------
(* SpecShared: several HunkCacheService instances, each in an invocation of *)
(* its own, on the one document of a repository.  An instance reads the     *)
(* document in its constructor and writes it in every saveCache; mem[i] is  *)
(* the cacheData of instance i.  The clock stands still, so no entry ages.  *)

MaxInstances == 2    \* instances alive at the same time

Instances == 1..MaxInstances

\* loadCache: a version-1 document keeps its history only
loadCache(document) ==
    IF document.version = 1
    THEN [EmptyCache EXCEPT !.history = document.history]
    ELSE document

MergeMaps(a, b) == [x \in (DOMAIN a) \cup (DOMAIN b) |-> IF x \in DOMAIN b THEN b[x] ELSE a[x]]

\* a write that keeps what the document holds and the writer does not
writeMerging(document, data) ==
    [data EXCEPT !.fingerprints = MergeMaps(document.fingerprints, @),
                 !.usedIds = MergeMaps(document.usedIds, @),
                 !.history = @ \o SelectSeq(document.history,
                                            LAMBDA e : \A k \in 1..Len(data.history) :
                                                           data.history[k] # e)]

\* writeFileSync(cachePath, JSON.stringify(cacheData)) at the end of saveCache:
\* the document becomes the writer's cacheData, whatever it held
writeFileSync(document, data) == data

NotCreated == [loaded |-> FALSE, data |-> EmptyCache]

SharedInputs == {<<HunkOf(1, <<10, 10>>, cs)>> : cs \in {PoolA, PoolB}}

InitShared ==
    /\ hunk = NoHunk
    /\ diffText = <<>>
    /\ op = "none"
    /\ arg = 0
    /\ out = <<>>
    /\ CacheIdle
    /\ StageIdle
    /\ fileKind = "text"
    /\ trackState = "tracked"
    /\ calls = <<>>
    /\ added = 0
    /\ removed = 0
    /\ patchText = <<>>
    /\ disk = EmptyCache
    /\ mem = [i \in Instances |-> NotCreated]

\* what a step of instance i that ends in saveCache leaves: data is the
\* cacheData saveCache has pruned
Saves(i, data, name) ==
    /\ mem' = [mem EXCEPT ![i].data = data]
    /\ disk' = writeFileSync(disk, data)
    /\ op' = name
    /\ arg' = i
    /\ UNCHANGED <<hunkVars, out, cacheVars, stageVars, cmdVars>>

\* new HunkCacheService(cwd)
Create(i) ==
    /\ ~mem[i].loaded
    /\ mem' = [mem EXCEPT ![i] = [loaded |-> TRUE, data |-> loadCache(disk)]]
    /\ op' = "create"
    /\ arg' = i
    /\ UNCHANGED <<hunkVars, out, cacheVars, stageVars, cmdVars, disk>>

SharedMapHunks(i) ==
    /\ mem[i].loaded
    /\ \E hunks \in SharedInputs :
          Saves(i, mapHunks(mem[i].data, FilePath, hunks, now).cacheData, "mapHunks")

SharedClearCache(i) ==
    /\ mem[i].loaded
    /\ Saves(i, clearCache(mem[i].data, now), "clearCache")

SharedAddHistory(i) ==
    /\ mem[i].loaded
    /\ Len(mem[i].data.history) < MaxHist
    /\ \E entry \in HistoryInputs :
          Saves(i, addHistory(mem[i].data, entry, now), "addHistory")

\* the invocation that holds instance i ends
Finish(i) ==
    /\ mem[i].loaded
    /\ mem' = [mem EXCEPT ![i] = NotCreated]
    /\ op' = "finish"
    /\ arg' = i
    /\ UNCHANGED <<hunkVars, out, cacheVars, stageVars, cmdVars, disk>>

NextShared ==
    \E i \in Instances :
        \/ Create(i)
        \/ SharedMapHunks(i)
        \/ SharedClearCache(i)
        \/ SharedAddHistory(i)
        \/ Finish(i)

SpecShared == InitShared /\ [][NextShared]_vars

Saving == {"mapHunks", "clearCache", "addHistory"}

\* C28: an instance takes the document into its memory when it is created and
\* at no other time: no step of another instance changes its memory; and
\* every save makes the document the memory of the instance that saves,
\* whatever the document held
LastWriterWins ==
    [][/\ \A i \in Instances :
             (i # arg' /\ mem[i].loaded) => mem'[i] = mem[i]
       /\ op' = "create" => (mem'[arg'].data = disk /\ disk' = disk)
       /\ op' \in Saving => disk' = mem'[arg'].data
      ]_vars

\* instance 1 has written a cache entry and a history entry; instance 2, created
\* before that, has saved after it: the document holds neither
LostUpdateWitness ==
    /\ op = "mapHunks"
    /\ arg = 2
    /\ mem[1].loaded
    /\ mem[2].loaded
    /\ \E f \in DOMAIN mem[1].data.fingerprints : f \notin DOMAIN disk.fingerprints
    /\ mem[1].data.history # <<>>
    /\ disk.history = <<>>
    /\ disk = mem[2].data

----------------------------------------------------------------------------
(* SpecPatch: buildPatch serializes one hunk.  The changes carry every      *)
(* combination of type and newline flag, also those no git diff shows.      *)

MaxPatchLen == 3     \* longest hunk handed to buildPatch

PatchChangeLists ==
    UNION {[1..n -> [type : Types, content : HunkContents, eol : BOOLEAN]] : n \in 1..MaxPatchLen}

PatchHunks == {HunkOf(1, <<1, 1>>, cs) : cs \in PatchChangeLists}

InitPatch ==
    /\ hunk \in PatchHunks
    /\ op = "none"
    /\ arg = {}
    /\ out = <<>>
    /\ diffText = <<>>
    /\ CacheIdle
    /\ StageIdle
    /\ CmdIdle

BuildPatch ==
    /\ op = "none"
    /\ arg' = FilePath
    /\ out' = buildPatch(<<FileData(FilePath, FilePath, <<HunkData(hunk)>>)>>)
    /\ op' = "buildPatch"
    /\ UNCHANGED <<hunkVars, cacheVars, stageVars, cmdVars, diskVars>>

NextPatch == BuildPatch

SpecPatch == InitPatch /\ [][NextPatch]_vars

\* C21: in the patch of a hunk the marker line follows the line of a change
\* exactly when the change has no newline and is the last change of the hunk or
\* is followed by a change that is not Unchanged; the patch holds the four lines
\* of the file header, the hunk header, one line for each change, and those
\* markers, nothing else
MarkerPlacement ==
    op = "buildPatch" =>
        LET cs == hunk.changes
            n == Len(cs)
            After(i) == ~cs[i].eol /\ (i = n \/ cs[i + 1].type # "UnchangedLine")
            pos(i) == 5 + i + Cardinality({j \in 1..(i - 1) : After(j)})
        IN /\ Len(out) = 5 + n + Cardinality({j \in 1..n : After(j)})
           /\ \A i \in 1..n :
                 /\ out[pos(i)] = <<Prefix(cs[i].type)>> \o cs[i].content
                 /\ After(i) <=> (pos(i) < Len(out) /\ out[pos(i) + 1] = MarkerLine)

\* a change without newline stands before a context line and gets no marker,
\* and the last change of the hunk has no newline and gets the only marker
MarkerPlacementWitness ==
    /\ op = "buildPatch"
    /\ \E i \in 1..(Len(hunk.changes) - 1) :
          ~hunk.changes[i].eol /\ hunk.changes[i + 1].type = "UnchangedLine"
    /\ ~hunk.changes[Len(hunk.changes)].eol
    /\ Cardinality({k \in 1..Len(out) : out[k] = MarkerLine}) = 1
    /\ out[Len(out)] = MarkerLine

====
